---- MODULE Spec2Model ----
(***************************************************************************)
(* Enterprise rendezvous server (src/src/enterprise_rendezvous_server.rs). *)
(* The model covers the UDP dispatch of handle_udp (RegisterPeer,          *)
(* RegisterPk, PunchHoleRequest), the peer directory it reads and writes,  *)
(* the effective license key computed by get_server_sk at start-up, the    *)
(* detached cold punch-hole resolutions, the loop of start() that recreates *)
(* a failed transport resource, the relay lists, and the device sessions   *)
(* with their authentication and their cleanup sweep.                      *)
(*                                                                         *)
(* Spec and FairSpec run the serving loop, RelaySpec runs it with relay    *)
(* servers configured, SessionSpec runs the session map against the clock, *)
(* AuthSpec runs authenticate_device and create_device_session, CollabSpec *)
(* runs the handlers that call the database, MailboxSpec runs the channel  *)
(* (tx, rx) against the loop and its rebuilds, and TransferSpec runs the   *)
(* FileTransferManager of src/src/file_transfer.rs. ProbeSpec runs the     *)
(* loop with its relay probe timer, RegisterSpec the RegisterPk handler in *)
(* two steps beside the detached tasks, OutboundSpec the replies and the   *)
(* queued messages sent on the UDP socket, ConcurrentStartSpec two tasks   *)
(* inside start_transfer, LoginSpec the login handler of src/src/web_api.rs, *)
(* GroupSpec the user groups of src/src/enterprise_management.rs and       *)
(* BandwidthSpec the BandwidthManager of                                   *)
(* src/src/performance_optimization.rs.                                    *)
(***************************************************************************)
EXTENDS Integers, Sequences, FiniteSets, TLC

\* ---------------------------------------------------------------- bounds
MaxPort == 2
MaxSpawned == 2
MaxSerial == 1
MaxAdvances == 6
MaxEvents == 3
MaxUuids == 1
MaxChunks == 2
MaxTicks == 1
MaxLogins == 7
MaxAllocations == 3

\* ------------------------------------------------------ program constants
MinIdLen == 6
MinServerPort == 3
SweepSecs == 60
AnonHours == 1
AuthHours == 8
SECRETKEYBYTES == 64
MAX_CONCURRENT_TRANSFERS == 10
TRANSFER_TIMEOUT == 300
max_failed_attempts == 5
lockout_duration == 1800
available_bandwidth == 10000

\* ------------------------------------------------------------ input sets
\* "" is the empty id, "alice" is shorter than MinIdLen, "alice1" is long
\* enough to be bound.
Ids == {"", "alice", "alice1"}
\* The ids RegisterPeer datagrams carry.
PeerIds == {"", "alice1"}
Uuids == {"", "u1", "u2"}
Pks == {"", "K1", "K2"}
Ips == {"10.0.0.1", "10.0.0.2"}
Ports == 1..MaxPort
Addrs == [ip : Ips, port : Ports]
Serials == 0..MaxSerial
LicenceKeys == {"", "secret", "GENPK"}

\* Values of the -k/--key argument: empty, the default "-", a plain shared
\* secret, and the base64 text of a 64-byte signing key.
SkArg == "BASE64-OF-64-BYTE-SECRET-KEY"
KeyArgs == {"", "-", "secret", SkArg}

\* Public keys crate::common::gen_sk may hand back ("" when it has none).
GenPks == {"", "GENPK"}

VARIABLES
    key_arg,           \* the key argument start() was called with
    key,               \* the effective license key, get_server_sk(key).0
    always_use_relay,  \* ALWAYS_USE_RELAY
    serial,            \* Inner.serial
    relay_arg,         \* the relay-servers argument start() hands to parse_relay_servers
    pm,                \* PeerMap: id -> Peer record, or NoPeer
    devices,           \* devices table of the database: id -> ip_address, or NoRow
    spawned,           \* the detached handle_udp_punch_hole_request tasks still running
    cold,              \* what the detached task that finished last sent or queued
    pc,                \* where the main task is: "select" inside io_loop, "udp" after
                       \* handle_udp returned, "tcp" after an accepted connection was
                       \* handled, "failure" after io_loop returned a LoopFailure,
                       \* "start" at the top of the loop of start(), "exited" after
                       \* the main task returned an error
    last,              \* the datagram of this loop iteration, the record stored for
                       \* its id when it arrived (before) and what was done with it
    failure,           \* the LoopFailure io_loop returned, or "none"
    sockets,           \* the port each transport resource is bound to (0: dropped)
    rebuilt,           \* the resource start() dropped and created in its last match arm
    relay_servers0,    \* the configured relay servers
    relay_servers,     \* the relay servers in use
    rotation,          \* ROTATION_RELAY_SERVER
    mailbox,           \* the Data values sent on tx and not yet received from rx
    sent,              \* how many Data values have been sent on tx
    consumed,          \* the Data values io_loop has received from rx, in order
    now,               \* seconds since the server started
    sessions,          \* device_sessions: device id -> DeviceSession, or NoSession
    last_sweep,        \* the instant of the last cleanup_expired_sessions run
    advances,          \* how many times the clock was advanced
    expired,           \* the devices the last sweep logged as expired
    audit,             \* the create_device_session call made since the clock last
                       \* moved: what log_audit returned and what the call returned
    auth,              \* the last authenticate_device call and how it ended
    transfer_permissions,  \* FileTransferManager: user id -> TransferPermissions
    active_transfers,  \* FileTransferManager: transfer id -> ActiveTransfer
    starting,          \* per caller: the start_transfer call it is inside, between
                       \* the check of the limit and the insertion
    stuck,             \* a handle_chunk call waits in complete_transfer for the
                       \* write lock that its own guard holds
    uuids,             \* how many transfer ids Uuid::new_v4 has produced
    clock,             \* SystemTime::now(), in seconds
    ticks,             \* how often the clock has been moved
    overflow_checks,   \* the build panics on integer overflow (debug profile)
    tres,              \* the FileTransferManager call made last and its result
    user_row,          \* the row of the user in the users table: failed attempts
                       \* and lock time
    logins,            \* number of login requests served
    login_res,         \* the login request served last and its response
    user_groups,       \* EnterpriseManager.user_groups: group id -> group
    creating,          \* per caller: the create_user_group call it is inside,
                       \* between the check of the name and the insertion
    group_res,         \* the group call that returned last and its result
    used_bandwidth,    \* BandwidthManager.used_bandwidth
    allocating,        \* per caller: the allocate_bandwidth call it is inside,
                       \* between the loads and the fetch_add
    allocations,       \* number of allocate_bandwidth calls begun
    bw_res             \* the allocate_bandwidth call that returned last

cfgVars == <<key_arg, key, always_use_relay, serial, relay_arg>>
supVars == <<failure, sockets, rebuilt>>
relayVars == <<relay_servers0, relay_servers, rotation, mailbox, sent, consumed>>
sessVars == <<now, sessions, last_sweep, advances, expired, audit, auth>>
xferVars == <<transfer_permissions, active_transfers, starting, stuck, uuids, clock,
              ticks, overflow_checks, tres>>
srvVars == <<cfgVars, pm, devices, spawned, cold, pc, last, supVars, relayVars, sessVars>>
appVars == <<user_row, logins, login_res, user_groups, creating, group_res,
             used_bandwidth, allocating, allocations, bw_res>>
vars == <<srvVars, xferVars, appVars>>

\* ---------------------------------------------------------- device sessions
Devices == {"d1", "d2"}
NoSession == [absent |-> TRUE]
\* No create_device_session call since the clock last moved.
NoAudit == [device_id |-> "-", logged |-> "none", result |-> "Ok"]

\* No query of the users table was made.
NoLookup == [called |-> FALSE, ok |-> TRUE, user |-> {}]
NoAuth == [device_id |-> "-", token |-> {}, lookup |-> NoLookup, outcome |-> "none",
           user_id |-> {}]

\* ------------------------------------------------------------ peer records
NoAddr == [ip |-> "-", port |-> 0]
NoPeer == [uuid |-> "-", pk |-> "-", socket_addr |-> NoAddr, ip |-> "-"]
NoRow == "-"

\* Peer::default(): the empty placeholder get_or creates.
DefaultPeer == [uuid |-> "", pk |-> "", socket_addr |-> [ip |-> "0.0.0.0", port |-> 0], ip |-> ""]

\* PeerMap::is_in_memory
is_in_memory(pmv, id) == pmv[id] # NoPeer

\* PeerMap::get_or: the existing entry, or an empty placeholder put in the map.
get_or(pmv, id) == IF pmv[id] # NoPeer THEN pmv ELSE [pmv EXCEPT ![id] = DefaultPeer]

\* PeerMap::update_pk: binds (uuid, pk) and records the address.
update_pk(pmv, id, addr, uuid, pk, ip) ==
    [pmv EXCEPT ![id] = [uuid |-> uuid, pk |-> pk, socket_addr |-> addr, ip |-> ip]]

\* An id is bound once its entry holds a non-empty uuid.
Bound(pmv, id) == pmv[id] # NoPeer /\ pmv[id].uuid # ""

\* ------------------------------------------------------------ get_server_sk
\* base64::decode(&key): the number of bytes decoded, -1 for a decode error.
base64_decode_len(k) ==
    IF k = SkArg THEN SECRETKEYBYTES
    ELSE IF k = "" THEN 0
    ELSE 0 - 1

\* base64::encode(&sk[SECRETKEYBYTES / 2..]) of the decoded secret key.
base64_encode_upper_half(k) == "PK-OF-SECRET-KEY"

\* Mutant: the generated key also replaces an empty key argument.
get_server_sk_empty_too(k, gen_pk) ==
    LET key1 == IF base64_decode_len(k) = SECRETKEYBYTES
                THEN base64_encode_upper_half(k)
                ELSE k
    IN  IF key1 = "" \/ key1 = "-" \/ key1 = "_" THEN gen_pk ELSE key1

\* The effective key for the key argument k; gen_pk is the key gen_sk(0) returns.
get_server_sk(k, gen_pk) ==
    LET key1 == IF base64_decode_len(k) = SECRETKEYBYTES
                THEN base64_encode_upper_half(k)
                ELSE k
    IN  IF key1 = "" \/ key1 = "-" \/ key1 = "_"
        THEN (IF key1 # "" THEN gen_pk ELSE key1)
        ELSE key1

\* ------------------------------------------------------------- RegisterPk
\* The IP/abuse guard.
check_ip_blocker(ip, id) == TRUE

Mismatch == [outcome |-> "mismatch", changed |-> FALSE, ip_changed |-> FALSE]

\* Mutant: a first registration does not count as a change.
RegisterPkCheck_unbound_unchanged(peer, uuid, pk, ip) ==
    IF peer.uuid = "" THEN [outcome |-> "ok", changed |-> FALSE, ip_changed |-> FALSE]
    ELSE IF peer.uuid = uuid
         THEN IF peer.ip # ip /\ peer.pk # pk THEN Mismatch
              ELSE [outcome |-> "ok",
                    changed |-> (peer.uuid # uuid \/ peer.pk # pk \/ peer.ip # ip),
                    ip_changed |-> (peer.ip # ip)]
         ELSE Mismatch

\* Mutant: a uuid other than the stored one is not refused.
RegisterPkCheck_no_uuid_check(peer, uuid, pk, ip) ==
    IF peer.uuid = "" THEN [outcome |-> "ok", changed |-> TRUE, ip_changed |-> FALSE]
    ELSE IF peer.ip # ip /\ peer.pk # pk THEN Mismatch
    ELSE [outcome |-> "ok",
          changed |-> (peer.uuid # uuid \/ peer.pk # pk \/ peer.ip # ip),
          ip_changed |-> (peer.ip # ip)]

\* Mutant: a new key from a new IP address is not refused.
RegisterPkCheck_no_ip_pk_check(peer, uuid, pk, ip) ==
    IF peer.uuid = "" THEN [outcome |-> "ok", changed |-> TRUE, ip_changed |-> FALSE]
    ELSE IF peer.uuid = uuid
         THEN [outcome |-> "ok",
               changed |-> (peer.uuid # uuid \/ peer.pk # pk \/ peer.ip # ip),
               ip_changed |-> (peer.ip # ip)]
         ELSE Mismatch

\* Mutant: a new IP address alone does not count as a change.
RegisterPkCheck_ip_not_a_change(peer, uuid, pk, ip) ==
    IF peer.uuid = "" THEN [outcome |-> "ok", changed |-> TRUE, ip_changed |-> FALSE]
    ELSE IF peer.uuid = uuid
         THEN IF peer.ip # ip /\ peer.pk # pk THEN Mismatch
              ELSE [outcome |-> "ok",
                    changed |-> (peer.uuid # uuid \/ peer.pk # pk),
                    ip_changed |-> (peer.ip # ip)]
         ELSE Mismatch

\* Mutant: every accepted registration counts as a change.
RegisterPkCheck_always_changed(peer, uuid, pk, ip) ==
    IF peer.uuid = "" THEN [outcome |-> "ok", changed |-> TRUE, ip_changed |-> FALSE]
    ELSE IF peer.uuid = uuid
         THEN IF peer.ip # ip /\ peer.pk # pk THEN Mismatch
              ELSE [outcome |-> "ok", changed |-> TRUE, ip_changed |-> (peer.ip # ip)]
         ELSE Mismatch

\* The identity check of a RegisterPk against the stored record `peer`: the
\* outcome "mismatch" (answered UUID_MISMATCH) or "ok" with (changed, ip_changed).
RegisterPkCheck(peer, uuid, pk, ip) ==
    IF peer.uuid = ""
    THEN [outcome |-> "ok", changed |-> TRUE, ip_changed |-> FALSE]
    ELSE IF peer.uuid = uuid
         THEN IF peer.ip # ip /\ peer.pk # pk
              THEN Mismatch
              ELSE [outcome |-> "ok",
                    changed |-> (peer.uuid # uuid \/ peer.pk # pk \/ peer.ip # ip),
                    ip_changed |-> (peer.ip # ip)]
         ELSE Mismatch

\* Mutant: the record is written before the outcome of the check is looked at.
RegisterPkApply_update_first(pmv, chk, id, addr, uuid, pk) ==
    [pm |-> update_pk(get_or(pmv, id), id, addr, uuid, pk, addr.ip), updated |-> TRUE]

\* The directory after the check: update_pk only when accepted and changed.
RegisterPkApply(pmv, chk, id, addr, uuid, pk) ==
    IF chk.outcome = "ok" /\ chk.changed
    THEN [pm |-> update_pk(get_or(pmv, id), id, addr, uuid, pk, addr.ip), updated |-> TRUE]
    ELSE [pm |-> get_or(pmv, id), updated |-> FALSE]

\* register_pk_response::Result sent by send_rk_res.
send_rk_res(res) == res

\* The rendezvous-servers list start() got from get_servers.
RendezvousServers == <<"rs1.example", "rs2.example">>

\* The serial and the server list a ConfigUpdate carries.
NoConfig == [serial |-> -1, rendezvous_servers |-> <<>>]

\* Mutant: the result of the call is passed on with `?`.
Discard_propagates(ok) == ok

\* `let _ = <call>`: the result of the call is dropped and the caller goes on
\* (TRUE) whether the call returned Ok or Err.
Discard(ok) == TRUE

NoMsg == [kind |-> "none", id |-> "", uuid |-> "", pk |-> "", licence_key |-> "",
          serial |-> 0, addr |-> NoAddr, before |-> NoPeer,
          reply |-> "none", reply_to |-> NoAddr, reply_addr |-> NoAddr, relay |-> "",
          queued |-> "none", changed |-> FALSE, updated |-> FALSE,
          looked_up |-> FALSE, route |-> "none", db_ok |-> TRUE, conn_ok |-> TRUE,
          config |-> NoConfig, probe |-> FALSE, sent_ok |-> TRUE,
          result |-> "Ok"]

\* The ResultType of handle_udp after a socket.send(...).await?
SendResult(send_ok) == IF send_ok THEN "Ok" ELSE "Err"

\* Mutant: the entry is fetched with get_or before the id length is checked.
HandleRegisterPk_lookup_first ==
    /\ pc = "select"
    /\ \E id \in Ids, uuid \in Uuids, pk \in Pks, addr \in Addrs, send_ok \in BOOLEAN :
        LET m == [NoMsg EXCEPT !.kind = "RegisterPk", !.id = id, !.uuid = uuid,
                               !.pk = pk, !.addr = addr, !.before = pm[id]]
        IN
        IF uuid = "" \/ pk = ""
        THEN /\ send_ok
             /\ last' = m
             /\ pm' = pm
        ELSE IF Len(id) < MinIdLen
        THEN /\ last' = [m EXCEPT !.reply = send_rk_res("UUID_MISMATCH"),
                                  !.reply_to = addr,
                                  !.looked_up = TRUE,
                                  !.result = SendResult(send_ok)]
             /\ pm' = get_or(pm, id)
        ELSE IF ~check_ip_blocker(addr.ip, id)
        THEN /\ last' = [m EXCEPT !.reply = send_rk_res("TOO_FREQUENT"),
                                  !.reply_to = addr,
                                  !.result = SendResult(send_ok)]
             /\ pm' = pm
        ELSE LET peer == get_or(pm, id)[id]
                 chk == RegisterPkCheck(peer, uuid, pk, addr.ip)
                 app == RegisterPkApply(pm, chk, id, addr, uuid, pk)
             IN  /\ pm' = app.pm
                 /\ last' = [m EXCEPT
                               !.reply = IF chk.outcome = "ok" THEN "OK"
                                         ELSE send_rk_res("UUID_MISMATCH"),
                               !.reply_to = addr,
                               !.changed = chk.changed,
                               !.updated = app.updated,
                               !.looked_up = TRUE,
                               !.result = SendResult(send_ok)]
    /\ pc' = "udp"
    /\ UNCHANGED <<cfgVars, devices, spawned, cold, supVars, relayVars, sessVars, xferVars, appVars>>

\* Mutant: a RegisterPk with an empty uuid or public key is handled like any
\* other.
HandleRegisterPk_no_empty_check ==
    /\ pc = "select"
    /\ \E id \in Ids, uuid \in Uuids, pk \in Pks, addr \in Addrs, send_ok \in BOOLEAN :
        LET m == [NoMsg EXCEPT !.kind = "RegisterPk", !.id = id, !.uuid = uuid,
                               !.pk = pk, !.addr = addr, !.before = pm[id]]
        IN
        IF Len(id) < MinIdLen
        THEN /\ last' = [m EXCEPT !.reply = send_rk_res("UUID_MISMATCH"),
                                  !.reply_to = addr,
                                  !.result = SendResult(send_ok)]
             /\ pm' = pm
        ELSE IF ~check_ip_blocker(addr.ip, id)
        THEN /\ last' = [m EXCEPT !.reply = send_rk_res("TOO_FREQUENT"),
                                  !.reply_to = addr,
                                  !.result = SendResult(send_ok)]
             /\ pm' = pm
        ELSE LET peer == get_or(pm, id)[id]
                 chk == RegisterPkCheck(peer, uuid, pk, addr.ip)
                 app == RegisterPkApply(pm, chk, id, addr, uuid, pk)
             IN  /\ pm' = app.pm
                 /\ last' = [m EXCEPT
                               !.reply = IF chk.outcome = "ok" THEN "OK"
                                         ELSE send_rk_res("UUID_MISMATCH"),
                               !.reply_to = addr,
                               !.changed = chk.changed,
                               !.updated = app.updated,
                               !.looked_up = TRUE,
                               !.result = SendResult(send_ok)]
    /\ pc' = "udp"
    /\ UNCHANGED <<cfgVars, devices, spawned, cold, supVars, relayVars, sessVars, xferVars, appVars>>

HandleRegisterPk ==
    /\ pc = "select"
    /\ \E id \in Ids, uuid \in Uuids, pk \in Pks, addr \in Addrs, send_ok \in BOOLEAN :
        LET m == [NoMsg EXCEPT !.kind = "RegisterPk", !.id = id, !.uuid = uuid,
                               !.pk = pk, !.addr = addr, !.before = pm[id]]
        IN
        IF uuid = "" \/ pk = ""
        THEN /\ send_ok
             /\ last' = m
             /\ pm' = pm
        ELSE IF Len(id) < MinIdLen
        THEN /\ last' = [m EXCEPT !.reply = send_rk_res("UUID_MISMATCH"),
                                  !.reply_to = addr,
                                  !.result = SendResult(send_ok)]
             /\ pm' = pm
        ELSE IF ~check_ip_blocker(addr.ip, id)
        THEN /\ last' = [m EXCEPT !.reply = send_rk_res("TOO_FREQUENT"),
                                  !.reply_to = addr,
                                  !.result = SendResult(send_ok)]
             /\ pm' = pm
        ELSE LET peer == get_or(pm, id)[id]
                 chk == RegisterPkCheck(peer, uuid, pk, addr.ip)
                 app == RegisterPkApply(pm, chk, id, addr, uuid, pk)
             IN  /\ pm' = app.pm
                 /\ last' = [m EXCEPT
                               !.reply = IF chk.outcome = "ok" THEN "OK"
                                         ELSE send_rk_res("UUID_MISMATCH"),
                               !.reply_to = addr,
                               !.changed = chk.changed,
                               !.updated = app.updated,
                               !.looked_up = TRUE,
                               !.result = SendResult(send_ok)]
    /\ pc' = "udp"
    /\ UNCHANGED <<cfgVars, devices, spawned, cold, supVars, relayVars, sessVars, xferVars, appVars>>

\* ------------------------------------------------------------ RegisterPeer
\* EnterpriseDatabase::register_device: INSERT OR REPLACE of the device row;
\* an error (db_ok = FALSE) leaves the table as it was.
register_device(dev, id, ip, db_ok) ==
    IF db_ok THEN [dev EXCEPT ![id] = ip] ELSE dev

\* update_addr: returns Ok(()) and records nothing.
update_addr(pmv, id, addr) == pmv

\* Mutant: a sender whose serial equals the server's gets a ConfigUpdate too.
HandleRegisterPeer_serial_not_strict ==
    /\ pc = "select"
    /\ \E id \in PeerIds, rp_serial \in Serials, addr \in Addrs,
          db_ok \in BOOLEAN, send_ok \in BOOLEAN :
        LET m == [NoMsg EXCEPT !.kind = "RegisterPeer", !.id = id,
                               !.serial = rp_serial, !.addr = addr,
                               !.before = pm[id]]
        IN
        IF id = ""
        THEN /\ db_ok /\ send_ok
             /\ last' = m
             /\ UNCHANGED <<pm, devices, xferVars, appVars>>
        ELSE /\ devices' = register_device(devices, id, addr.ip, db_ok)
             /\ IF ~Discard(db_ok)
                THEN /\ send_ok
                     /\ pm' = pm
                     /\ last' = [m EXCEPT !.db_ok = db_ok, !.result = "Err"]
                ELSE /\ pm' = update_addr(pm, id, addr)
                     /\ IF serial >= rp_serial
                        THEN last' = [m EXCEPT
                                        !.db_ok = db_ok,
                                        !.reply = "ConfigUpdate",
                                        !.reply_to = addr,
                                        !.config = [serial |-> serial,
                                                    rendezvous_servers |-> RendezvousServers],
                                        !.result = SendResult(send_ok)]
                        ELSE /\ send_ok
                             /\ last' = [m EXCEPT !.db_ok = db_ok]
    /\ pc' = "udp"
    /\ UNCHANGED <<cfgVars, spawned, cold, supVars, relayVars, sessVars, xferVars, appVars>>

HandleRegisterPeer ==
    /\ pc = "select"
    /\ \E id \in PeerIds, rp_serial \in Serials, addr \in Addrs,
          db_ok \in BOOLEAN, send_ok \in BOOLEAN :
        LET m == [NoMsg EXCEPT !.kind = "RegisterPeer", !.id = id,
                               !.serial = rp_serial, !.addr = addr,
                               !.before = pm[id]]
        IN
        IF id = ""
        THEN /\ db_ok /\ send_ok
             /\ last' = m
             /\ UNCHANGED <<pm, devices, xferVars, appVars>>
        ELSE /\ devices' = register_device(devices, id, addr.ip, db_ok)
             /\ IF ~Discard(db_ok)
                THEN /\ send_ok
                     /\ pm' = pm
                     /\ last' = [m EXCEPT !.db_ok = db_ok, !.result = "Err"]
                ELSE /\ pm' = update_addr(pm, id, addr)
                     /\ IF serial > rp_serial
                        THEN last' = [m EXCEPT
                                        !.db_ok = db_ok,
                                        !.reply = "ConfigUpdate",
                                        !.reply_to = addr,
                                        !.config = [serial |-> serial,
                                                    rendezvous_servers |-> RendezvousServers],
                                        !.result = SendResult(send_ok)]
                        ELSE /\ send_ok
                             /\ last' = [m EXCEPT !.db_ok = db_ok]
    /\ pc' = "udp"
    /\ UNCHANGED <<cfgVars, spawned, cold, supVars, relayVars, sessVars, xferVars, appVars>>

\* -------------------------------------------------------- PunchHoleRequest
\* Mutant: the target's socket address is sent back to the requester.
handle_udp_punch_hole_request_direct(pmv, addr, id, k) ==
    [reply |-> "PunchHoleResponse", reply_addr |-> pmv[id].socket_addr,
     relay |-> "r1", queued |-> "none", result |-> "Ok"]

\* handle_udp_punch_hole_request: returns Ok(()); it sends nothing on the socket
\* (reply, with the socket address reply_addr and the relay server relay it
\* would carry) and hands nothing to the mailbox self.tx (queued).
handle_udp_punch_hole_request(pmv, addr, id, k) ==
    [reply |-> "none", reply_addr |-> NoAddr, relay |-> "", queued |-> "none",
     result |-> "Ok"]

\* Mutant: the directory is consulted before the license key is compared.
PunchHoleDispatch_lookup_first(k, licence_key, pmv, id) ==
    IF ~is_in_memory(pmv, id)
    THEN [reply |-> "none", looked_up |-> TRUE, route |-> "spawn"]
    ELSE IF k # "" /\ licence_key # k
    THEN [reply |-> "LICENSE_MISMATCH", looked_up |-> TRUE, route |-> "none"]
    ELSE [reply |-> "none", looked_up |-> TRUE, route |-> "sync"]

\* Mutant: every request that passes the license gate is resolved in a
\* detached task.
PunchHoleDispatch_always_spawn(k, licence_key, pmv, id) ==
    IF k # "" /\ licence_key # k
    THEN [reply |-> "LICENSE_MISMATCH", looked_up |-> FALSE, route |-> "none"]
    ELSE [reply |-> "none", looked_up |-> TRUE, route |-> "spawn"]

\* The license gate and the routing of a PunchHoleRequest for `id`.
PunchHoleDispatch(k, licence_key, pmv, id) ==
    IF k # "" /\ licence_key # k
    THEN [reply |-> "LICENSE_MISMATCH", looked_up |-> FALSE, route |-> "none"]
    ELSE IF is_in_memory(pmv, id)
    THEN [reply |-> "none", looked_up |-> TRUE, route |-> "sync"]
    ELSE [reply |-> "none", looked_up |-> TRUE, route |-> "spawn"]

\* The detached tasks the model tells apart, and the one tokio::spawn starts.
Tasks == 1..MaxSpawned
NextTask(running) == CHOOSE t \in Tasks \ running : \A u \in Tasks \ running : t <= u

HandlePunchHoleRequest ==
    /\ pc = "select"
    /\ \E id \in Ids, licence_key \in LicenceKeys, addr \in Addrs, send_ok \in BOOLEAN :
        LET m == [NoMsg EXCEPT !.kind = "PunchHoleRequest", !.id = id,
                               !.licence_key = licence_key, !.addr = addr,
                               !.before = pm[id]]
            d == PunchHoleDispatch(key, licence_key, pm, id)
            r == handle_udp_punch_hole_request(pm, addr, id, key)
        IN
        IF d.route = "none"
        THEN /\ last' = [m EXCEPT !.reply = d.reply, !.reply_to = addr,
                                  !.looked_up = d.looked_up,
                                  !.result = SendResult(send_ok)]
             /\ spawned' = spawned
        ELSE IF d.route = "sync"
        THEN /\ send_ok
             /\ last' = [m EXCEPT !.reply = r.reply,
                                  !.reply_to = IF r.reply = "none" THEN NoAddr ELSE addr,
                                  !.reply_addr = r.reply_addr,
                                  !.relay = r.relay,
                                  !.queued = r.queued,
                                  !.looked_up = d.looked_up, !.route = "sync",
                                  !.result = r.result]
             /\ spawned' = spawned
        ELSE /\ send_ok
             /\ Cardinality(spawned) < MaxSpawned
             /\ last' = [m EXCEPT !.looked_up = d.looked_up, !.route = "spawn"]
             /\ spawned' = spawned \cup {NextTask(spawned)}
    /\ pc' = "udp"
    /\ UNCHANGED <<cfgVars, pm, devices, cold, supVars, relayVars, sessVars, xferVars, appVars>>

\* Any other message kind, and bytes that do not parse: Ok(()) with no effect.
HandleOther ==
    /\ pc = "select"
    /\ \E kind \in {"Other", "Malformed"}, addr \in Addrs :
        last' = [NoMsg EXCEPT !.kind = kind, !.addr = addr]
    /\ pc' = "udp"
    /\ UNCHANGED <<cfgVars, pm, devices, spawned, cold, supVars, relayVars, sessVars, xferVars, appVars>>

\* No detached task has finished yet.
NoCold == [reply |-> "none", reply_addr |-> NoAddr, relay |-> "", queued |-> "none",
           result |-> "Ok"]

\* The request a detached task was spawned with (the model does not keep it
\* per task): a target that is never resident, asked for from one address.
ColdAddrs == {CHOOSE a \in Addrs : a.port = 1}
ColdTargets == {id \in Ids : id # "" /\ Len(id) < MinIdLen}

\* Mutant: an error of a detached task ends io_loop like an error of
\* handle_udp.
ColdResolve_reports ==
    /\ pc = "select"
    /\ \E t \in spawned, id \in ColdTargets, addr \in ColdAddrs :
        /\ cold' = handle_udp_punch_hole_request(pm, addr, id, key)
        /\ spawned' = spawned \ {t}
    /\ failure' = "UdpSocket"
    /\ pc' = "failure"
    /\ UNCHANGED <<cfgVars, pm, devices, last, sockets, rebuilt, relayVars, sessVars, xferVars, appVars>>

\* One of the detached cold resolutions runs handle_udp_punch_hole_request to
\* its end for the (addr, id) of the request that spawned it; its result is
\* dropped by allow_err!.  The tasks end with the runtime when the main task
\* returns.
ColdResolve ==
    /\ pc # "exited"
    /\ \E t \in spawned, id \in ColdTargets, addr \in ColdAddrs :
        /\ cold' = handle_udp_punch_hole_request(pm, addr, id, key)
        /\ spawned' = spawned \ {t}
    /\ UNCHANGED <<cfgVars, pm, devices, pc, last, supVars, relayVars, sessVars, xferVars, appVars>>

\* ------------------------------------------------------ transport resources
\* LoopFailure
Kinds == {"UdpSocket", "Listener", "Listener2", "Listener3"}
Listeners == {"Listener", "Listener2", "Listener3"}

\* The port argument of start(); start_enterprise_server refuses a smaller one.
ServerPort == MinServerPort
nat_port(port) == port - 1
ws_port(port) == port + 2

\* The sockets start() binds before the loop: socket, listener, listener2,
\* listener3.
BindAll(port) ==
    [kind \in Kinds |->
        CASE kind = "UdpSocket" -> port
          [] kind = "Listener"  -> port
          [] kind = "Listener2" -> nat_port(port)
          [] kind = "Listener3" -> ws_port(port)]

\* Mutant: every arm recreates the UDP socket.
Recreate_udp_always(kind, port) == [kind |-> "UdpSocket", port |-> port]

\* The match arms of start(): which resource is dropped and on which port it
\* is created again.
Recreate(kind, port) ==
    CASE kind = "UdpSocket" -> [kind |-> "UdpSocket", port |-> port]
      [] kind = "Listener"  -> [kind |-> "Listener",  port |-> port]
      [] kind = "Listener2" -> [kind |-> "Listener2", port |-> nat_port(port)]
      [] kind = "Listener3" -> [kind |-> "Listener3", port |-> ws_port(port)]

NoRebuild == [kind |-> "none", port |-> 0, ok |-> TRUE]

\* Mutant: every call of io_loop works on a channel of its own.
EnterIoLoop_new_channel ==
    /\ pc = "start"
    /\ pc' = "select"
    /\ rebuilt' = NoRebuild
    /\ mailbox' = <<>>
    /\ UNCHANGED <<cfgVars, pm, devices, spawned, cold, last, failure, sockets,
                   relay_servers0, relay_servers, rotation, sent, consumed, sessVars, xferVars, appVars>>

\* The top of the loop of start(): log, then io_loop is called.
EnterIoLoop ==
    /\ pc = "start"
    /\ pc' = "select"
    /\ rebuilt' = NoRebuild
    /\ UNCHANGED <<cfgVars, pm, devices, spawned, cold, last, failure, sockets,
                   relayVars, sessVars, xferVars, appVars>>

\* Mutant: a connection that goes wrong (conn_ok = FALSE) makes the handler
\* return an error to io_loop.
handle_listener_fallible(conn_ok) == SendResult(conn_ok)

\* handle_listener and handle_listener2: the body is empty and the return type
\* is (), so io_loop gets nothing back, whatever happens to the connection.
handle_listener(conn_ok) == "Ok"

\* Mutant: the listeners are served by a task of their own, also while the
\* main task is outside io_loop.
AcceptConnection_any_time ==
    /\ pc \in {"select", "failure"}
    /\ \E kind \in Listeners, conn_ok \in BOOLEAN :
        last' = [NoMsg EXCEPT !.kind = kind, !.conn_ok = conn_ok,
                              !.result = handle_listener(conn_ok)]
    /\ pc' = "tcp"
    /\ UNCHANGED <<cfgVars, pm, devices, spawned, cold, supVars, relayVars, sessVars, xferVars, appVars>>

\* listener.accept(), listener2.accept() or listener3.accept() hands over a
\* connection; handle_listener and handle_listener2 return without doing
\* anything with it.
AcceptConnection ==
    /\ pc = "select"
    /\ \E kind \in Listeners, conn_ok \in BOOLEAN :
        last' = [NoMsg EXCEPT !.kind = kind, !.conn_ok = conn_ok,
                              !.result = handle_listener(conn_ok)]
    /\ pc' = "tcp"
    /\ UNCHANGED <<cfgVars, pm, devices, spawned, cold, supVars, relayVars, sessVars, xferVars, appVars>>

\* accept() fails: io_loop returns the LoopFailure of that listener.
AcceptFailure ==
    /\ pc = "select"
    /\ \E kind \in Listeners : failure' = kind
    /\ pc' = "failure"
    /\ UNCHANGED <<cfgVars, pm, devices, spawned, cold, last, sockets, rebuilt,
                   relayVars, sessVars, xferVars, appVars>>

\* socket.next() yields Some(Err(_)): io_loop returns LoopFailure::UdpSocket.
UdpRecvFailure ==
    /\ pc = "select"
    /\ failure' = "UdpSocket"
    /\ pc' = "failure"
    /\ UNCHANGED <<cfgVars, pm, devices, spawned, cold, last, sockets, rebuilt,
                   relayVars, sessVars, xferVars, appVars>>

\* The handler returned: io_loop goes round to select! again.
LoopContinue ==
    /\ pc \in {"udp", "tcp", "timer", "mail"}
    /\ last.result = "Ok"
    /\ pc' = "select"
    /\ last' = NoMsg
    /\ UNCHANGED <<cfgVars, pm, devices, spawned, cold, supVars, relayVars, sessVars, xferVars, appVars>>

\* handle_udp returned Err: io_loop returns LoopFailure::UdpSocket.
ReturnUdpFailure ==
    /\ pc = "udp"
    /\ last.result = "Err"
    /\ failure' = "UdpSocket"
    /\ pc' = "failure"
    /\ last' = NoMsg
    /\ UNCHANGED <<cfgVars, pm, devices, spawned, cold, sockets, rebuilt,
                   relayVars, sessVars, xferVars, appVars>>

\* Mutant: the main task gives up after a failure even when the resource came
\* back.
RecreateResource_gives_up ==
    /\ pc = "failure"
    /\ \E ok \in BOOLEAN :
        LET r == Recreate(failure, ServerPort)
        IN  /\ rebuilt' = [kind |-> r.kind, port |-> r.port, ok |-> ok]
            /\ sockets' = [sockets EXCEPT ![r.kind] = IF ok THEN r.port ELSE 0]
            /\ pc' = "exited"
    /\ failure' = "none"
    /\ UNCHANGED <<cfgVars, pm, devices, spawned, cold, last, relayVars, sessVars, xferVars, appVars>>

\* start() matches the LoopFailure: the resource is dropped and created again;
\* when the creation fails (ok = FALSE) the `?` ends the main task with the
\* error.
RecreateResource ==
    /\ pc = "failure"
    /\ \E ok \in BOOLEAN :
        LET r == Recreate(failure, ServerPort)
        IN  /\ rebuilt' = [kind |-> r.kind, port |-> r.port, ok |-> ok]
            /\ sockets' = [sockets EXCEPT ![r.kind] = IF ok THEN r.port ELSE 0]
            /\ pc' = IF ok THEN "start" ELSE "exited"
    /\ failure' = "none"
    /\ UNCHANGED <<cfgVars, pm, devices, spawned, cold, last, relayVars, sessVars, xferVars, appVars>>

\* ------------------------------------------------------------ relay servers
\* Values of the relay-servers argument.
RelayArgs == {<<>>, <<"r1">>, <<"r1", "r2">>}

\* parse_relay_servers: its body is empty, self.relay_servers0 stays as it is.
parse_relay_servers(rs0, arg) == rs0

\* The timer_check_relay.tick() arm of io_loop: a check_relay_servers task is
\* spawned with a clone of relay_servers0 when that list has more than one
\* entry; the task (its body is empty) sends nothing back.
CheckRelayTick ==
    /\ pc = "select"
    /\ last' = [NoMsg EXCEPT !.kind = "Timer", !.probe = Len(relay_servers0) > 1]
    /\ pc' = "timer"
    /\ UNCHANGED <<cfgVars, pm, devices, spawned, cold, supVars, relayVars, sessVars, xferVars, appVars>>

\* ------------------------------------------------------- file transfers
\* (src/src/file_transfer.rs)  Users, and the transfer ids: the one a request
\* can name and the ones Uuid::new_v4 produces, in the order it produces them.
Users == {"u1"}
RequestIds == {"", "t1"}
GeneratedIds == <<"g1", "g2", "g3", "g4", "g5", "g6", "g7", "g8", "g9", "g10", "g11">>
TransferIds == {"t1"} \cup {GeneratedIds[i] : i \in 1..MaxUuids}

\* Every id a transfer can be registered under.
KnownIds == {"t1"} \cup {GeneratedIds[i] : i \in 1..Len(GeneratedIds)}

\* The tasks that call start_transfer at the same time.
Callers == {"c1", "c2"}

\* Paths with their extension and directory, chunk lengths.
Paths == {"/data/a.txt", "/data/a.exe", "/tmp/a.txt"}
extension(path) == IF path = "/data/a.exe" THEN "exe" ELSE "txt"
starts_with(path, dir) == dir = "/data" /\ path \in {"/data/a.txt", "/data/a.exe"}
ChunkLens == {1, 2}

\* The requests start_transfer is called with: an upload the permissions
\* below allow, under either id, and one request for each way of being
\* refused (download, sync, size, extension, directory).
GoodRequest(id) ==
    [transfer_id |-> id, transfer_type |-> "Upload", file_size |-> 2,
     file_path |-> "/data/a.txt", resume_from |-> 0]
Requests ==
    {GoodRequest(id) : id \in RequestIds}
    \cup {[GoodRequest("t1") EXCEPT !.transfer_type = ty] :
            ty \in {"Download", "Sync", "FolderSync"}}
    \cup {[GoodRequest("t1") EXCEPT !.file_size = 3]}
    \cup {[GoodRequest("t1") EXCEPT !.file_path = path] :
            path \in {"/data/a.exe", "/tmp/a.txt"}}

\* The permissions set_user_permissions is called with.
PermChoices ==
    {[can_upload |-> TRUE, can_download |-> FALSE, can_sync |-> FALSE,
      max_file_size |-> 2, allowed_paths |-> {"/data"},
      blocked_extensions |-> {"exe"}]}

NoPermissions == [can_upload |-> FALSE, can_download |-> FALSE, can_sync |-> FALSE,
                  max_file_size |-> 0, allowed_paths |-> {},
                  blocked_extensions |-> {"-"}]
NoTransfer == [file_size |-> 0, file_handle |-> FALSE, bytes_transferred |-> 0,
               last_activity |-> 0, speed_samples |-> <<>>, absent |-> TRUE]
NoCall == [op |-> "none", id |-> "", outcome |-> "none", wrapped |-> FALSE,
           is_last |-> FALSE]

\* FileTransferManager::new
\* A caller of start_transfer that is not inside the call.
Idle == [stage |-> "idle", req |-> GoodRequest("")]

NewManager ==
    /\ transfer_permissions = [u \in Users |-> NoPermissions]
    /\ active_transfers = [t \in KnownIds |-> NoTransfer]
    /\ starting = [c \in Callers |-> Idle]
    /\ stuck = FALSE
    /\ uuids = 0
    /\ clock = 0
    /\ ticks = 0
    /\ tres = NoCall

\* check_permissions: TRUE for Ok(()).
check_permissions(perms, user, req) ==
    /\ perms[user] # NoPermissions
    /\ CASE req.transfer_type = "Upload" -> perms[user].can_upload
         [] req.transfer_type = "Download" -> perms[user].can_download
         [] OTHER -> perms[user].can_sync
    /\ ~(req.file_size > perms[user].max_file_size)
    /\ extension(req.file_path) \notin perms[user].blocked_extensions
    /\ \/ perms[user].allowed_paths = {}
       \/ \E dir \in perms[user].allowed_paths : starts_with(req.file_path, dir)

\* The number of entries of the map.
active_count(transfers) ==
    Cardinality({t \in DOMAIN transfers : transfers[t] # NoTransfer})

\* calculate_speed
calculate_speed(transfer) ==
    IF Len(transfer.speed_samples) < 2
    THEN 0
    ELSE LET first == transfer.speed_samples[1]
             lastS == transfer.speed_samples[Len(transfer.speed_samples)]
             time_diff == lastS.t - first.t
             bytes_diff == lastS.bytes - first.bytes
         IN  IF time_diff > 0 THEN bytes_diff \div time_diff ELSE 0

\* Mutant: the remaining bytes are computed with a saturating subtraction.
get_progress_saturating(transfers, id, checks) ==
    IF transfers[id] = NoTransfer
    THEN [outcome |-> "None", wrapped |-> FALSE]
    ELSE [outcome |-> "Some", wrapped |-> FALSE]

\* get_progress once it holds the read lock: None for an unknown id, else
\* Some(progress).  The eta is (file_size - bytes_transferred) / speed on u64
\* when speed > 0: with bytes_transferred > file_size the subtraction
\* overflows, which panics in a build with overflow checks and wraps around
\* (wrapped) in one without.
get_progress(transfers, id, checks) ==
    IF transfers[id] = NoTransfer
    THEN [outcome |-> "None", wrapped |-> FALSE]
    ELSE IF calculate_speed(transfers[id]) > 0
            /\ transfers[id].bytes_transferred > transfers[id].file_size
         THEN IF checks THEN [outcome |-> "panic", wrapped |-> FALSE]
              ELSE [outcome |-> "Some", wrapped |-> TRUE]
         ELSE [outcome |-> "Some", wrapped |-> FALSE]

SetUserPermissions ==
    /\ \E user \in Users, permissions \in PermChoices :
        transfer_permissions' = [transfer_permissions EXCEPT ![user] = permissions]
    /\ tres' = [NoCall EXCEPT !.op = "set_user_permissions"]
    /\ UNCHANGED <<srvVars, appVars, starting, active_transfers, stuck, uuids, clock, ticks, overflow_checks>>

\* start_transfer; io_ok = FALSE is an error of opening or creating the file.
StartTransfer ==
    /\ \E user \in Users, req \in Requests, io_ok \in BOOLEAN :
        LET call == [NoCall EXCEPT !.op = "start_transfer"]
            generate == req.transfer_id = ""
            id == IF generate THEN GeneratedIds[uuids + 1] ELSE req.transfer_id
            has_file == req.transfer_type \in {"Upload", "Download"}
        IN
        IF ~check_permissions(transfer_permissions, user, req)
        THEN /\ io_ok
             /\ tres' = [call EXCEPT !.outcome = "Err"]
             /\ UNCHANGED <<active_transfers, uuids>>
        ELSE IF stuck
        THEN /\ io_ok
             /\ tres' = [call EXCEPT !.outcome = "blocked"]
             /\ UNCHANGED <<active_transfers, uuids>>
        ELSE IF active_count(active_transfers) >= MAX_CONCURRENT_TRANSFERS
        THEN /\ io_ok
             /\ tres' = [call EXCEPT !.outcome = "Err"]
             /\ UNCHANGED <<active_transfers, uuids>>
        ELSE /\ generate => uuids < MaxUuids
             /\ uuids' = IF generate THEN uuids + 1 ELSE uuids
             /\ IF has_file /\ ~io_ok
                THEN /\ tres' = [call EXCEPT !.outcome = "Err"]
                     /\ UNCHANGED active_transfers
                ELSE /\ has_file \/ io_ok
                     /\ active_transfers' =
                            [active_transfers EXCEPT ![id] =
                                [file_size |-> req.file_size, file_handle |-> has_file,
                                 bytes_transferred |-> req.resume_from,
                                 last_activity |-> clock, speed_samples |-> <<>>,
                                 absent |-> FALSE]]
                     /\ tres' = [call EXCEPT !.outcome = "Ok", !.id = id]
    /\ UNCHANGED <<srvVars, appVars, starting, transfer_permissions, stuck, clock, ticks, overflow_checks>>

\* handle_chunk.  It holds the write guard of active_transfers from its first
\* line to its return; for a chunk with is_last it calls complete_transfer,
\* whose first line waits for the same write lock: the call never returns and
\* the lock is never released.
HandleChunk ==
    /\ \E id \in TransferIds, len \in ChunkLens, checksum_ok \in BOOLEAN,
          io_ok \in BOOLEAN, is_last \in BOOLEAN :
        LET call == [NoCall EXCEPT !.op = "handle_chunk", !.id = id]
            transfer == active_transfers[id]
            bytes == transfer.bytes_transferred + len
            samples == Append(transfer.speed_samples, [t |-> clock, bytes |-> bytes])
        IN
        IF stuck
        THEN /\ checksum_ok /\ io_ok /\ ~is_last /\ len = 1
             /\ tres' = [call EXCEPT !.outcome = "blocked"]
             /\ UNCHANGED <<active_transfers, stuck>>
        ELSE IF transfer = NoTransfer \/ ~checksum_ok \/ (transfer.file_handle /\ ~io_ok)
        THEN /\ ~is_last /\ len = 1
             /\ tres' = [call EXCEPT !.outcome = "Err"]
             /\ UNCHANGED <<active_transfers, stuck>>
        ELSE /\ transfer.file_handle \/ io_ok
             /\ Len(transfer.speed_samples) < MaxChunks
             /\ active_transfers' =
                    [active_transfers EXCEPT ![id] =
                        [transfer EXCEPT
                            !.bytes_transferred = bytes,
                            !.last_activity = clock,
                            !.speed_samples = IF Len(samples) > 10
                                              THEN Tail(samples) ELSE samples]]
             /\ stuck' = is_last
             /\ tres' = [call EXCEPT !.outcome = IF is_last THEN "blocked" ELSE "Ok",
                                     !.is_last = is_last]
    /\ UNCHANGED <<srvVars, appVars, starting, transfer_permissions, uuids, clock, ticks, overflow_checks>>

\* get_progress
GetProgress ==
    /\ \E id \in TransferIds :
        LET call == [NoCall EXCEPT !.op = "get_progress", !.id = id]
            r == get_progress(active_transfers, id, overflow_checks)
        IN  tres' = IF stuck
                    THEN [call EXCEPT !.outcome = "blocked"]
                    ELSE [call EXCEPT !.outcome = r.outcome, !.wrapped = r.wrapped]
    /\ UNCHANGED <<srvVars, appVars, starting, transfer_permissions, active_transfers, stuck, uuids, clock,
                   ticks, overflow_checks>>

\* pause_transfer: Ok for a known id, nothing is recorded.
PauseTransfer ==
    /\ \E id \in TransferIds :
        LET call == [NoCall EXCEPT !.op = "pause_transfer", !.id = id]
        IN  tres' = IF stuck THEN [call EXCEPT !.outcome = "blocked"]
                    ELSE IF active_transfers[id] = NoTransfer
                    THEN [call EXCEPT !.outcome = "Err"]
                    ELSE [call EXCEPT !.outcome = "Ok"]
    /\ UNCHANGED <<srvVars, appVars, starting, transfer_permissions, active_transfers, stuck, uuids, clock,
                   ticks, overflow_checks>>

\* cancel_transfer; io_ok = FALSE is an error of removing the temporary file,
\* which comes after the entry has been removed.
CancelTransfer ==
    /\ \E id \in TransferIds, io_ok \in BOOLEAN :
        LET call == [NoCall EXCEPT !.op = "cancel_transfer", !.id = id] IN
        IF stuck
        THEN /\ io_ok
             /\ tres' = [call EXCEPT !.outcome = "blocked"]
             /\ UNCHANGED active_transfers
        ELSE IF active_transfers[id] = NoTransfer
        THEN /\ io_ok
             /\ tres' = [call EXCEPT !.outcome = "Err"]
             /\ UNCHANGED active_transfers
        ELSE /\ active_transfers' = [active_transfers EXCEPT ![id] = NoTransfer]
             /\ tres' = [call EXCEPT !.outcome = IF io_ok THEN "Ok" ELSE "Err"]
    /\ UNCHANGED <<srvVars, appVars, starting, transfer_permissions, stuck, uuids, clock, ticks,
                   overflow_checks>>

\* cleanup_expired_transfers: removes the transfers whose last activity is
\* more than TRANSFER_TIMEOUT seconds ago.
CleanupExpiredTransfers ==
    /\ IF stuck
       THEN /\ tres' = [NoCall EXCEPT !.op = "cleanup_expired_transfers",
                                       !.outcome = "blocked"]
            /\ UNCHANGED active_transfers
       ELSE /\ active_transfers' =
                    [t \in DOMAIN active_transfers |->
                        IF active_transfers[t] # NoTransfer
                           /\ clock - active_transfers[t].last_activity > TRANSFER_TIMEOUT
                        THEN NoTransfer ELSE active_transfers[t]]
            /\ tres' = [NoCall EXCEPT !.op = "cleanup_expired_transfers",
                                       !.outcome = "Ok"]
    /\ UNCHANGED <<srvVars, appVars, starting, transfer_permissions, stuck, uuids, clock, ticks,
                   overflow_checks>>

\* Time passes.
ClockSteps == {1, TRANSFER_TIMEOUT + 1}
Tick ==
    /\ ticks < MaxTicks
    /\ \E d \in ClockSteps : clock' = clock + d
    /\ ticks' = ticks + 1
    /\ UNCHANGED <<srvVars, appVars, starting, transfer_permissions, active_transfers, stuck, uuids,
                   overflow_checks, tres>>

\* start_transfer, step by step, for calls that run at the same time: the
\* function holds the lock of active_transfers twice, once to count and once
\* to insert, and awaits in between.

\* The ids in use: registered, or generated for a call that is under way.
UsedIds(transfers, calls) ==
    {t \in DOMAIN transfers : transfers[t] # NoTransfer}
    \cup {calls[c].req.transfer_id : c \in {d \in Callers : calls[d] # Idle}}

\* Uuid::new_v4(): an id that is not in use; the first such id of GeneratedIds
\* stands for all of them.
FreshIds(transfers, calls) ==
    LET unused == {i \in 1..Len(GeneratedIds) :
                     GeneratedIds[i] \notin UsedIds(transfers, calls)}
    IN  {GeneratedIds[i] : i \in {j \in unused : \A k \in unused : j <= k}}

\* Up to the creation of the file: the permission check, the count under the
\* read lock (released at the end of the statement), the generation of the id.
StartCheck ==
    /\ \E c \in Callers, user \in Users, req \in Requests :
        LET call == [NoCall EXCEPT !.op = "start_transfer"]
            ids == IF req.transfer_id = ""
                   THEN FreshIds(active_transfers, starting)
                   ELSE {req.transfer_id}
        IN
        /\ starting[c] = Idle
        /\ IF ~check_permissions(transfer_permissions, user, req)
           THEN /\ tres' = [call EXCEPT !.outcome = "Err"]
                /\ UNCHANGED starting
           ELSE IF stuck
           THEN /\ tres' = [call EXCEPT !.outcome = "blocked"]
                /\ UNCHANGED starting
           ELSE IF active_count(active_transfers) >= MAX_CONCURRENT_TRANSFERS
           THEN /\ tres' = [call EXCEPT !.outcome = "Err"]
                /\ UNCHANGED starting
           ELSE /\ \E id \in ids :
                    starting' = [starting EXCEPT ![c] =
                                    [stage |-> "checked",
                                     req |-> [req EXCEPT !.transfer_id = id]]]
                /\ tres' = tres
    /\ UNCHANGED <<srvVars, appVars, transfer_permissions, active_transfers, stuck, uuids, clock,
                   ticks, overflow_checks>>

\* From the creation of the file to the return: the ActiveTransfer is inserted
\* under the write lock, replacing an entry with the same id.
StartInsert ==
    /\ \E c \in Callers, io_ok \in BOOLEAN :
        LET call == [NoCall EXCEPT !.op = "start_transfer"]
            req == starting[c].req
            has_file == req.transfer_type \in {"Upload", "Download"}
        IN
        /\ starting[c].stage = "checked"
        /\ IF has_file /\ ~io_ok
           THEN /\ tres' = [call EXCEPT !.outcome = "Err"]
                /\ UNCHANGED active_transfers
           ELSE /\ has_file \/ io_ok
                /\ ~stuck
                /\ active_transfers' =
                       [active_transfers EXCEPT ![req.transfer_id] =
                           [file_size |-> req.file_size, file_handle |-> has_file,
                            bytes_transferred |-> req.resume_from,
                            last_activity |-> clock, speed_samples |-> <<>>,
                            absent |-> FALSE]]
                /\ tres' = [call EXCEPT !.outcome = "Ok", !.id = req.transfer_id]
        /\ starting' = [starting EXCEPT ![c] = Idle]
    /\ UNCHANGED <<srvVars, appVars, transfer_permissions, stuck, uuids, clock, ticks,
                   overflow_checks>>

\* ------------------------------------------- logins, groups, bandwidth
\* The web API's login, the user groups of EnterpriseManager and the
\* BandwidthManager of the performance optimizer.

\* The user names of login requests: "u1" has a row in the users table.
Usernames == {"u1", "nobody"}

NoLogin == [outcome |-> "none", username |-> "", password_ok |-> FALSE,
            failed_before |-> 0, streak_before |-> 0, streak |-> 0]

\* AuthManager::is_user_locked at time t.
is_user_locked(user, t) == \E locked_until \in user.locked_until : t < locked_until

\* AuthManager::should_lock_user and generate_lockout_time: nothing calls them.
should_lock_user(user) == user.failed_login_attempts >= max_failed_attempts
generate_lockout_time(t) == t + lockout_duration

\* EnterpriseDatabase::update_user_login_info on the row of the user; db_ok:
\* whether the statement went through.
update_user_login_info(user, success, db_ok, t) ==
    IF ~db_ok THEN user
    ELSE IF success THEN [failed_login_attempts |-> 0, locked_until |-> {}]
    ELSE [user EXCEPT !.failed_login_attempts = @ + 1]

\* The login handler of the web API for a user without two-factor
\* authentication; the result of update_user_login_info is dropped (let _ =).
\* streak counts the wrong passwords given for the user since the last
\* successful login.
Login ==
    /\ logins < MaxLogins
    /\ \E username \in Usernames, password_ok \in BOOLEAN, lookup_ok \in BOOLEAN,
          update_ok \in BOOLEAN, jwt_ok \in BOOLEAN :
        LET res == [NoLogin EXCEPT !.username = username, !.password_ok = password_ok,
                                   !.failed_before = user_row.failed_login_attempts,
                                   !.streak_before = login_res.streak,
                                   !.streak = login_res.streak]
        IN
        IF ~lookup_ok
        THEN /\ password_ok /\ update_ok /\ jwt_ok
             /\ login_res' = [res EXCEPT !.outcome = "internal_error"]
             /\ user_row' = user_row
        ELSE IF username # "u1"
        THEN /\ password_ok /\ update_ok /\ jwt_ok
             /\ login_res' = [res EXCEPT !.outcome = "bad_credentials"]
             /\ user_row' = user_row
        ELSE IF is_user_locked(user_row, clock)
        THEN /\ update_ok /\ jwt_ok
             /\ login_res' = [res EXCEPT !.outcome = "locked"]
             /\ user_row' = user_row
        ELSE IF ~password_ok
        THEN /\ jwt_ok
             /\ login_res' = [res EXCEPT !.outcome = "bad_credentials",
                                         !.streak = @ + 1]
             /\ user_row' = update_user_login_info(user_row, FALSE, update_ok, clock)
        ELSE IF ~jwt_ok
        THEN /\ update_ok
             /\ login_res' = [res EXCEPT !.outcome = "internal_error"]
             /\ user_row' = user_row
        ELSE /\ login_res' = [res EXCEPT !.outcome = "success", !.streak = 0]
             /\ user_row' = update_user_login_info(user_row, TRUE, update_ok, clock)
    /\ logins' = logins + 1
    /\ UNCHANGED <<srvVars, xferVars, user_groups, creating, group_res,
                   used_bandwidth, allocating, allocations, bw_res>>

\* User groups: ids and names of the UserGroup values of the calls; the map
\* holds the name of each group, NoGroup for an id without entry.
GroupIds == {"grp1", "grp2"}
GroupNames == {"ops", "dev"}
NoGroup == "-"
NoGroupCall == [op |-> "none", id |-> "", name |-> "", outcome |-> "none"]

\* groups.values().any(|g| g.name == group.name)
name_taken(groups, name) == \E id \in GroupIds : groups[id] = name

\* create_user_group up to drop(groups): the name is looked for under the
\* read lock; a name that is taken ends the call with an error.
CreateGroupCheck ==
    /\ \E c \in Callers, id \in GroupIds, name \in GroupNames :
        LET call == [NoGroupCall EXCEPT !.op = "create_user_group", !.id = id,
                                       !.name = name]
        IN
        /\ creating[c] = NoGroupCall
        /\ IF name_taken(user_groups, name)
           THEN /\ group_res' = [call EXCEPT !.outcome = "Err"]
                /\ creating' = creating
           ELSE /\ group_res' = group_res
                /\ creating' = [creating EXCEPT ![c] = call]
    /\ UNCHANGED <<srvVars, xferVars, user_row, logins, login_res, user_groups,
                   used_bandwidth, allocating, allocations, bw_res>>

\* create_user_group from the database call (a stub that returns Ok) to the
\* return: the group is inserted under the write lock.
CreateGroupInsert ==
    /\ \E c \in Callers :
        /\ creating[c] # NoGroupCall
        /\ user_groups' = [user_groups EXCEPT ![creating[c].id] = creating[c].name]
        /\ group_res' = [creating[c] EXCEPT !.outcome = "Ok"]
        /\ creating' = [creating EXCEPT ![c] = NoGroupCall]
    /\ UNCHANGED <<srvVars, xferVars, user_row, logins, login_res,
                   used_bandwidth, allocating, allocations, bw_res>>

\* update_user_group: the database call (a stub that returns Ok), then the
\* group is inserted under its id.
UpdateUserGroup ==
    /\ \E id \in GroupIds, name \in GroupNames :
        /\ user_groups' = [user_groups EXCEPT ![id] = name]
        /\ group_res' = [op |-> "update_user_group", id |-> id, name |-> name,
                         outcome |-> "Ok"]
    /\ UNCHANGED <<srvVars, xferVars, user_row, logins, login_res, creating,
                   used_bandwidth, allocating, allocations, bw_res>>

\* Bandwidth: the kbps a call asks for.
BandwidthRequests == {4000, 10000}
NoAllocation == [outcome |-> "none", requested |-> 0, remaining |-> 0, allocated |-> 0]

\* u64::saturating_sub
saturating_sub(a, b) == IF a > b THEN a - b ELSE 0

Min(a, b) == IF a < b THEN a ELSE b

\* allocate_bandwidth up to the computation of `allocated`: the two atomic
\* loads and the minimum.
AllocateLoad ==
    /\ allocations < MaxAllocations
    /\ \E c \in Callers, requested_kbps \in BandwidthRequests :
        LET remaining == saturating_sub(available_bandwidth, used_bandwidth)
        IN
        /\ allocating[c] = NoAllocation
        /\ allocating' = [allocating EXCEPT ![c] =
                            [outcome |-> "loaded", requested |-> requested_kbps,
                             remaining |-> remaining,
                             allocated |-> Min(requested_kbps, remaining)]]
    /\ allocations' = allocations + 1
    /\ UNCHANGED <<srvVars, xferVars, user_row, logins, login_res, user_groups,
                   creating, group_res, used_bandwidth, bw_res>>

\* allocate_bandwidth from the fetch_add to the return.
AllocateAdd ==
    /\ \E c \in Callers :
        /\ allocating[c] # NoAllocation
        /\ used_bandwidth' = used_bandwidth + allocating[c].allocated
        /\ bw_res' = [allocating[c] EXCEPT !.outcome = "returned"]
        /\ allocating' = [allocating EXCEPT ![c] = NoAllocation]
    /\ UNCHANGED <<srvVars, xferVars, user_row, logins, login_res, user_groups,
                   creating, group_res, allocations>>

\* The state of the three after construction.
NewApplication ==
    /\ user_row = [failed_login_attempts |-> 0, locked_until |-> {}]
    /\ logins = 0
    /\ login_res = NoLogin
    /\ user_groups = [id \in GroupIds |-> NoGroup]
    /\ creating = [c \in Callers |-> NoGroupCall]
    /\ group_res = NoGroupCall
    /\ used_bandwidth = 0
    /\ allocating = [c \in Callers |-> NoAllocation]
    /\ allocations = 0
    /\ bw_res = NoAllocation

\* ------------------------------------------------------------------ start
\* The state start() builds before the loop, for a given configuration.
Started ==
    /\ \E g \in GenPks : key = get_server_sk(key_arg, g)
    /\ serial = MaxSerial
    /\ pm = [id \in Ids |-> NoPeer]
    /\ devices = [id \in Ids |-> NoRow]
    /\ spawned = {}
    /\ cold = NoCold
    /\ pc = "start"
    /\ last = NoMsg
    /\ failure = "none"
    /\ sockets = BindAll(ServerPort)
    /\ rebuilt = NoRebuild
    /\ relay_servers0 = parse_relay_servers(<<>>, relay_arg)
    /\ relay_servers = <<>>
    /\ rotation = 0
    /\ mailbox = <<>>
    /\ sent = 0
    /\ consumed = <<>>
    /\ now = 0
    /\ sessions = [d \in Devices |-> NoSession]
    /\ last_sweep = 0
    /\ advances = 0
    /\ expired = {}
    /\ audit = NoAudit
    /\ auth = NoAuth
    /\ NewManager
    /\ NewApplication

Init ==
    /\ key_arg \in KeyArgs
    /\ always_use_relay \in BOOLEAN
    /\ relay_arg = <<>>
    /\ overflow_checks = TRUE
    /\ Started

Next ==
    \/ EnterIoLoop
    \/ HandleRegisterPeer
    \/ HandleRegisterPk
    \/ HandlePunchHoleRequest
    \/ HandleOther
    \/ ColdResolve
    \/ AcceptConnection
    \/ AcceptFailure
    \/ UdpRecvFailure
    \/ LoopContinue
    \/ ReturnUdpFailure
    \/ RecreateResource

Spec == Init /\ [][Next]_vars

\* --------------------------------------------------------- device sessions
\* An Option<T> is the set of its values: {} is None, {x} is Some(x).
None == {}
Some(x) == {x}

\* The user ids create_device_session is called with.
UserIds == {None, Some("u1")}

\* Duration::from_hours, in seconds.
from_hours(h) == h * 60 * 60

\* DevicePermissions::default()
DefaultPermissions ==
    [can_control |-> FALSE, can_transfer_files |-> FALSE, can_view_screen |-> FALSE,
     can_use_audio |-> FALSE, can_use_clipboard |-> FALSE,
     session_timeout |-> Some(from_hours(AnonHours))]

\* Mutant: every session is marked authenticated.
NewSession_always_authenticated(device_id, user_id, t) ==
    [device_id |-> device_id, user_id |-> user_id, authenticated |-> TRUE,
     last_activity |-> t, permissions |-> DefaultPermissions, connection_count |-> 1]

\* The DeviceSession create_device_session builds at instant t.
NewSession(device_id, user_id, t) ==
    [device_id |-> device_id,
     user_id |-> user_id,
     authenticated |-> user_id # None,
     last_activity |-> t,
     permissions |->
        IF user_id # None
        THEN [can_control |-> TRUE, can_transfer_files |-> TRUE,
              can_view_screen |-> TRUE, can_use_audio |-> TRUE,
              can_use_clipboard |-> TRUE,
              session_timeout |-> Some(from_hours(AuthHours))]
        ELSE DefaultPermissions,
     connection_count |-> 1]

\* create_device_session: the new session is inserted under the device id, in
\* place of any session the device had; the result of log_audit is dropped.
CreateDeviceSession ==
    /\ \E device_id \in Devices, user_id \in UserIds, audit_ok \in BOOLEAN :
        /\ sessions' = [sessions EXCEPT ![device_id] = NewSession(device_id, user_id, now)]
        /\ IF user_id # None
           THEN audit' = [device_id |-> device_id,
                          logged |-> IF audit_ok THEN "Ok" ELSE "Err",
                          result |-> IF Discard(audit_ok) THEN "Ok" ELSE "Err"]
           ELSE /\ audit_ok
                /\ audit' = [device_id |-> device_id, logged |-> "none", result |-> "Ok"]
    /\ UNCHANGED <<cfgVars, pm, devices, spawned, cold, pc, last, supVars, relayVars,
                   now, last_sweep, advances, expired, auth, xferVars, appVars>>

\* Mutant: a session is dropped as soon as its idle time reaches the timeout.
Expired_at_timeout(session, t) ==
    \E timeout \in session.permissions.session_timeout :
        t - session.last_activity >= timeout

\* The test of the retain closure of cleanup_expired_sessions.
Expired(session, t) ==
    \E timeout \in session.permissions.session_timeout :
        t - session.last_activity > timeout

\* cleanup_expired_sessions run at instant t
cleanup_expired_sessions(sess, t) ==
    [d \in Devices |->
        IF sess[d] # NoSession /\ Expired(sess[d], t) THEN NoSession ELSE sess[d]]

\* The lengths of time the clock is moved on by.
TimeSteps == {1, SweepSecs - 1, from_hours(AnonHours) - SweepSecs,
              from_hours(AuthHours - AnonHours)}

\* The last tick of the cleanup interval at or before instant t.
LastTick(t) == (t \div SweepSecs) * SweepSecs

\* Time passes.  The cleanup task sweeps at every tick of its interval; idle
\* times only grow, so the sweeps of the ticks passed over leave what the sweep
\* of the last of them leaves.
Advance ==
    /\ advances < MaxAdvances
    /\ \E d \in TimeSteps :
        /\ now' = now + d
        /\ IF LastTick(now + d) > now
           THEN /\ sessions' = cleanup_expired_sessions(sessions, LastTick(now + d))
                /\ last_sweep' = LastTick(now + d)
                /\ expired' = {dev \in Devices : sessions[dev] # NoSession
                                                 /\ Expired(sessions[dev], LastTick(now + d))}
           ELSE UNCHANGED <<sessions, last_sweep, expired, xferVars, appVars>>
    /\ advances' = advances + 1
    /\ audit' = NoAudit
    /\ UNCHANGED <<cfgVars, pm, devices, spawned, cold, pc, last, supVars, relayVars, auth, xferVars, appVars>>

\* The server of the session operations: default key argument, nothing
\* received yet.
SessionInit ==
    /\ key_arg = "-"
    /\ always_use_relay = FALSE
    /\ relay_arg = <<>>
    /\ overflow_checks = TRUE
    /\ Started

SessionNext ==
    \/ CreateDeviceSession
    \/ Advance

SessionSpec == SessionInit /\ [][SessionNext]_vars

\* ---------------------------------------------------- device authentication
\* UserRole
Roles == {"SuperAdmin", "Admin", "User", "ReadOnly"}

\* The tokens presented: one that does not verify, one issued to the user
\* named "u1" (id "id1"), and one issued to a user who has no row in the
\* users table any more.
Tokens == {"bad", "jwt-u1", "jwt-gone"}

\* AuthManager::verify_jwt: the claims of the token, or Err.
verify_jwt(token) ==
    CASE token = "jwt-u1"   -> [ok |-> TRUE, sub |-> "id1", username |-> "u1"]
      [] token = "jwt-gone" -> [ok |-> TRUE, sub |-> "id9", username |-> "gone"]
      [] OTHER              -> [ok |-> FALSE, sub |-> "", username |-> ""]

\* EnterpriseDatabase::get_user_by_username: Err (ok = FALSE) when the query
\* fails, else Ok of the row of the user (here its role) as an Option.
get_user_by_username(username, role, db_ok) ==
    [called |-> TRUE, ok |-> db_ok,
     user |-> IF db_ok /\ username = "u1" THEN Some(role) ELSE None]

\* AuthManager::check_permission
check_permission(role, device_id, action) ==
    IF role = "SuperAdmin" THEN TRUE
    ELSE CASE role = "Admin"    -> TRUE
           [] role = "User"     -> TRUE
           [] role = "ReadOnly" -> action \in {"view", "monitor"}
           [] OTHER             -> FALSE

\* authenticate_device: Ok(Some(user id)) is "user", Ok(None) is "anonymous",
\* the Err passed on by `?` is "error" and the unwrap of None is "panic".
authenticate_device(device_id, token, role, db_ok) ==
    IF token = None
    THEN [lookup |-> NoLookup, outcome |-> "anonymous", user_id |-> None]
    ELSE LET claims == verify_jwt(CHOOSE t \in token : TRUE)
             user == get_user_by_username(claims.username, role, db_ok)
         IN  IF ~claims.ok
             THEN [lookup |-> NoLookup, outcome |-> "anonymous", user_id |-> None]
             ELSE IF ~user.ok
             THEN [lookup |-> user, outcome |-> "error", user_id |-> None]
             ELSE IF user.user = None
             THEN [lookup |-> user, outcome |-> "panic", user_id |-> None]
             ELSE IF check_permission(CHOOSE r \in user.user : TRUE, device_id, "access")
             THEN [lookup |-> user, outcome |-> "user", user_id |-> Some(claims.sub)]
             ELSE [lookup |-> user, outcome |-> "anonymous", user_id |-> None]

AuthenticateDevice ==
    /\ \E device_id \in Devices, token \in {None} \cup {Some(t) : t \in Tokens},
          role \in Roles, db_ok \in BOOLEAN :
        LET r == authenticate_device(device_id, token, role, db_ok)
        IN  auth' = [device_id |-> device_id, token |-> token, lookup |-> r.lookup,
                     outcome |-> r.outcome, user_id |-> r.user_id]
    /\ UNCHANGED <<cfgVars, pm, devices, spawned, cold, pc, last, supVars, relayVars,
                   now, sessions, last_sweep, advances, expired, audit, xferVars, appVars>>

AuthNext ==
    \/ AuthenticateDevice
    \/ CreateDeviceSession

AuthSpec == SessionInit /\ [][AuthNext]_vars

\* ---------------------------------------------------- file transfers (2)
\* A manager in a build with or without overflow checks.
TransferInit ==
    /\ key_arg = ""
    /\ always_use_relay = FALSE
    /\ relay_arg = <<>>
    /\ overflow_checks \in BOOLEAN
    /\ Started

TransferNext ==
    \/ SetUserPermissions
    \/ StartTransfer
    \/ HandleChunk
    \/ GetProgress
    \/ PauseTransfer
    \/ CancelTransfer
    \/ CleanupExpiredTransfers
    \/ Tick

TransferSpec == TransferInit /\ [][TransferNext]_vars

\* Two tasks calling start_transfer on the same manager.
ConcurrentStartNext ==
    \/ SetUserPermissions
    \/ StartCheck
    \/ StartInsert

ConcurrentStartSpec == SessionInit /\ [][ConcurrentStartNext]_vars

\* ------------------------------------------------------------- logins (2)
\* Login requests while time passes.
LoginNext ==
    \/ Login
    \/ Tick

LoginSpec == SessionInit /\ [][LoginNext]_vars

\* ------------------------------------------------------------ groups (2)
\* Two tasks that create user groups, and updates of groups.
GroupNext ==
    \/ CreateGroupCheck
    \/ CreateGroupInsert
    \/ UpdateUserGroup

GroupSpec == SessionInit /\ [][GroupNext]_vars

\* --------------------------------------------------------- bandwidth (2)
\* Two tasks that allocate bandwidth.
BandwidthNext ==
    \/ AllocateLoad
    \/ AllocateAdd

BandwidthSpec == SessionInit /\ [][BandwidthNext]_vars

\* ------------------------------------------------------------- mailbox
\* The Data values a holder of a clone of tx can send: an outbound message,
\* a new relay-servers argument, a probe result.
DataKinds == {"Msg", "RelayServers0", "RelayServers"}
Payloads(kind) ==
    IF kind = "Msg" THEN {<<>>}
    ELSE IF kind = "RelayServers0" THEN {<<"r1", "r2">>}
    ELSE RelayArgs \ {<<>>}

\* Mutant: the error of sending a queued message is returned to io_loop.
allow_err_propagates(send_ok) == SendResult(send_ok)

\* allow_err!: the error of the expression is logged and dropped.
allow_err(send_ok) == "Ok"

\* A holder of a clone of tx (a check_relay_servers task, a detached
\* punch-hole resolution) sends a Data value: the unbounded channel takes it
\* at once, whatever the main task is doing. `at` notes whether the main task
\* was rebuilding a resource at that moment.
MailboxSend ==
    /\ pc # "exited"
    /\ sent < MaxEvents
    /\ \E kind \in DataKinds :
        \E rs \in Payloads(kind) :
            mailbox' = Append(mailbox, [kind |-> kind, rs |-> rs,
                                        seq |-> sent + 1,
                                        at |-> IF pc = "failure" THEN "failure"
                                               ELSE "running"])
    /\ sent' = sent + 1
    /\ UNCHANGED <<cfgVars, pm, devices, spawned, cold, pc, last, supVars,
                   relay_servers0, relay_servers, rotation, consumed, sessVars, xferVars, appVars>>

\* Mutant: a probe result is stored as the configured list too.
MailboxRecv_result_into_configured ==
    /\ pc = "select"
    /\ mailbox # <<>>
    /\ LET data == Head(mailbox)
       IN  /\ mailbox' = Tail(mailbox)
           /\ consumed' = Append(consumed, data)
           /\ relay_servers0' = IF data.kind = "RelayServers0"
                                THEN parse_relay_servers(relay_servers0, data.rs)
                                ELSE IF data.kind = "RelayServers" THEN data.rs
                                ELSE relay_servers0
           /\ relay_servers' = IF data.kind = "RelayServers"
                               THEN data.rs
                               ELSE relay_servers
           /\ \E send_ok \in BOOLEAN :
                /\ data.kind # "Msg" => send_ok
                /\ last' = [NoMsg EXCEPT !.kind = "Data", !.queued = data.kind,
                                         !.sent_ok = send_ok,
                                         !.result = allow_err(send_ok)]
    /\ pc' = "mail"
    /\ UNCHANGED <<cfgVars, pm, devices, spawned, cold, supVars,
                   rotation, sent, sessVars, xferVars, appVars>>

\* The rx.recv() arm of io_loop: the oldest Data value is taken and acted on;
\* a Msg is sent on the UDP socket (send_ok: whether the send went well) and
\* an error of that send is dropped by allow_err!.
MailboxRecv ==
    /\ pc = "select"
    /\ mailbox # <<>>
    /\ LET data == Head(mailbox)
       IN  /\ mailbox' = Tail(mailbox)
           /\ consumed' = Append(consumed, data)
           /\ relay_servers0' = IF data.kind = "RelayServers0"
                                THEN parse_relay_servers(relay_servers0, data.rs)
                                ELSE relay_servers0
           /\ relay_servers' = IF data.kind = "RelayServers"
                               THEN data.rs
                               ELSE relay_servers
           /\ \E send_ok \in BOOLEAN :
                /\ data.kind # "Msg" => send_ok
                /\ last' = [NoMsg EXCEPT !.kind = "Data", !.queued = data.kind,
                                         !.sent_ok = send_ok,
                                         !.result = allow_err(send_ok)]
    /\ pc' = "mail"
    /\ UNCHANGED <<cfgVars, pm, devices, spawned, cold, supVars,
                   rotation, sent, sessVars, xferVars, appVars>>

MailboxNext ==
    \/ EnterIoLoop
    \/ MailboxSend
    \/ MailboxRecv
    \/ LoopContinue
    \/ AcceptFailure
    \/ UdpRecvFailure
    \/ RecreateResource

MailboxSpec == SessionInit /\ [][MailboxNext]_vars

\* ----------------------------------------------- RegisterPk, step by step
\* The RegisterPk arm of handle_udp in two steps, with the point between the
\* release of the read lock on the record and update_pk made visible
\* (pc = "rk").

\* Mutant: handle_udp runs in a task of its own, a datagram is taken up while
\* an earlier RegisterPk is between its two steps.
RegisterPkRead_in_own_task ==
    /\ pc \in {"select", "rk"}
    /\ \E id \in Ids, uuid \in Uuids, pk \in Pks, addr \in Addrs, send_ok \in BOOLEAN :
        LET m == [NoMsg EXCEPT !.kind = "RegisterPk", !.id = id, !.uuid = uuid,
                               !.pk = pk, !.addr = addr, !.before = pm[id]]
        IN
        IF uuid = "" \/ pk = ""
        THEN /\ send_ok
             /\ last' = m
             /\ pm' = pm
             /\ pc' = "udp"
        ELSE IF Len(id) < MinIdLen \/ ~check_ip_blocker(addr.ip, id)
        THEN /\ last' = [m EXCEPT !.reply = send_rk_res(IF Len(id) < MinIdLen
                                                        THEN "UUID_MISMATCH"
                                                        ELSE "TOO_FREQUENT"),
                                  !.reply_to = addr,
                                  !.result = SendResult(send_ok)]
             /\ pm' = pm
             /\ pc' = "udp"
        ELSE LET chk == RegisterPkCheck(get_or(pm, id)[id], uuid, pk, addr.ip)
             IN  /\ pm' = get_or(pm, id)
                 /\ IF chk.outcome = "ok"
                    THEN /\ send_ok
                         /\ last' = [m EXCEPT !.changed = chk.changed,
                                              !.looked_up = TRUE]
                         /\ pc' = "rk"
                    ELSE /\ last' = [m EXCEPT !.reply = send_rk_res("UUID_MISMATCH"),
                                              !.reply_to = addr,
                                              !.looked_up = TRUE,
                                              !.result = SendResult(send_ok)]
                         /\ pc' = "udp"
    /\ UNCHANGED <<cfgVars, devices, spawned, cold, supVars, relayVars, sessVars, xferVars, appVars>>

\* Up to the end of the block that holds the read lock: the validation, get_or
\* and the identity check; a datagram that is dropped or refused is finished
\* here.
RegisterPkRead ==
    /\ pc = "select"
    /\ \E id \in Ids, uuid \in Uuids, pk \in Pks, addr \in Addrs, send_ok \in BOOLEAN :
        LET m == [NoMsg EXCEPT !.kind = "RegisterPk", !.id = id, !.uuid = uuid,
                               !.pk = pk, !.addr = addr, !.before = pm[id]]
        IN
        IF uuid = "" \/ pk = ""
        THEN /\ send_ok
             /\ last' = m
             /\ pm' = pm
             /\ pc' = "udp"
        ELSE IF Len(id) < MinIdLen \/ ~check_ip_blocker(addr.ip, id)
        THEN /\ last' = [m EXCEPT !.reply = send_rk_res(IF Len(id) < MinIdLen
                                                        THEN "UUID_MISMATCH"
                                                        ELSE "TOO_FREQUENT"),
                                  !.reply_to = addr,
                                  !.result = SendResult(send_ok)]
             /\ pm' = pm
             /\ pc' = "udp"
        ELSE LET chk == RegisterPkCheck(get_or(pm, id)[id], uuid, pk, addr.ip)
             IN  /\ pm' = get_or(pm, id)
                 /\ IF chk.outcome = "ok"
                    THEN /\ send_ok
                         /\ last' = [m EXCEPT !.changed = chk.changed,
                                              !.looked_up = TRUE]
                         /\ pc' = "rk"
                    ELSE /\ last' = [m EXCEPT !.reply = send_rk_res("UUID_MISMATCH"),
                                              !.reply_to = addr,
                                              !.looked_up = TRUE,
                                              !.result = SendResult(send_ok)]
                         /\ pc' = "udp"
    /\ UNCHANGED <<cfgVars, devices, spawned, cold, supVars, relayVars, sessVars, xferVars, appVars>>

\* From `if changed` to the response: update_pk on the record fetched by the
\* first step, then OK is sent.
RegisterPkUpdate ==
    /\ pc = "rk"
    /\ \E send_ok \in BOOLEAN :
        /\ pm' = IF last.changed
                 THEN update_pk(pm, last.id, last.addr, last.uuid, last.pk, last.addr.ip)
                 ELSE pm
        /\ last' = [last EXCEPT !.reply = "OK", !.reply_to = last.addr,
                                !.updated = last.changed,
                                !.result = SendResult(send_ok)]
    /\ pc' = "udp"
    /\ UNCHANGED <<cfgVars, devices, spawned, cold, supVars, relayVars, sessVars, xferVars, appVars>>

\* The serving loop with the two-step RegisterPk and the tasks that run beside
\* it: detached punch-hole resolutions and the probe timer.
RegisterNext ==
    \/ EnterIoLoop
    \/ RegisterPkRead
    \/ RegisterPkUpdate
    \/ HandlePunchHoleRequest
    \/ ColdResolve
    \/ CheckRelayTick
    \/ LoopContinue
    \/ ReturnUdpFailure
    \/ RecreateResource

RegisterSpec == SessionInit /\ [][RegisterNext]_vars

\* ------------------------------------------------------- outbound sends
\* The serving loop with its two ways of sending on the UDP socket: the reply
\* of a datagram handler and a queued message taken from the mailbox.
OutboundNext ==
    \/ EnterIoLoop
    \/ HandleRegisterPeer
    \/ MailboxSend
    \/ MailboxRecv
    \/ UdpRecvFailure
    \/ LoopContinue
    \/ ReturnUdpFailure
    \/ RecreateResource

OutboundSpec == SessionInit /\ [][OutboundNext]_vars

\* ------------------------------------------------------ collaborator calls
\* The handlers that call the database: RegisterPeer in the serving loop and
\* create_device_session.
CollabNext ==
    \/ EnterIoLoop
    \/ HandleRegisterPeer
    \/ LoopContinue
    \/ ReturnUdpFailure
    \/ RecreateResource
    \/ CreateDeviceSession

CollabSpec == SessionInit /\ [][CollabNext]_vars

\* ------------------------------------------------------------ relay probes
\* The serving loop with its probe timer, for any of the relay-servers
\* arguments.
ProbeNext ==
    \/ EnterIoLoop
    \/ CheckRelayTick
    \/ HandleOther
    \/ LoopContinue
    \/ AcceptFailure
    \/ UdpRecvFailure
    \/ RecreateResource

\* The server started without a license key and with any of the relay-servers
\* arguments.
RelayInit ==
    /\ key_arg = ""
    /\ always_use_relay \in BOOLEAN
    /\ relay_arg \in RelayArgs
    /\ overflow_checks = TRUE
    /\ Started

RelaySpec == RelayInit /\ [][Next]_vars

ProbeSpec == RelayInit /\ [][ProbeNext]_vars

\* The main task is a task of the runtime: once io_loop has returned, the
\* creation of the resource is awaited to its end, and after it the loop of
\* start() goes round; checked for the server with the default key argument.
FairSpec ==
    SessionInit /\ [][Next]_vars /\ WF_vars(RecreateResource) /\ WF_vars(EnterIoLoop)

\* ================================================================ claims
\* handle_udp has returned from a RegisterPk datagram.
RegisterPkHandled == pc = "udp" /\ last.kind = "RegisterPk"

\* The id of the datagram was bound when the datagram arrived.
WasBound == last.before # NoPeer /\ last.before.uuid # ""

\* C1: once the directory holds a non-empty uuid for a peer id, no step of
\* the server (RegisterPeer, RegisterPk, PunchHoleRequest, background work)
\* changes the uuid stored for that id.
C1_UuidNeverChanges ==
    [][\A id \in Ids : Bound(pm, id) => Bound(pm', id) /\ pm'[id].uuid = pm[id].uuid]_vars

\* A bound id was re-registered and its record rewritten by update_pk.
C1_Witness == RegisterPkHandled /\ WasBound /\ last.updated /\ pm[last.id] # last.before

\* C2 as claimed: the public key stored for a bound id never changes.
C2_PkNeverChanges ==
    [][\A id \in Ids : Bound(pm, id) => Bound(pm', id) /\ pm'[id].pk = pm[id].pk]_vars

\* C2 as amended: the public key stored for a bound id changes only by a
\* RegisterPk that presents the stored uuid from the stored IP address; a
\* RegisterPk from another IP address never changes it.
C2_PkChangesOnlyFromStoredIp ==
    [][\A id \in Ids :
         (Bound(pm, id) /\ pm'[id].pk # pm[id].pk)
            => /\ pc' = "udp" /\ last'.kind = "RegisterPk" /\ last'.id = id
               /\ last'.uuid = pm[id].uuid
               /\ last'.addr.ip = pm[id].ip
               /\ pm'[id].pk = last'.pk /\ last'.pk # ""
               /\ pm'[id].uuid = pm[id].uuid]_vars

\* The key of a bound id was replaced by a RegisterPk from the stored IP.
C2_Witness ==
    /\ RegisterPkHandled /\ WasBound /\ last.reply = "OK"
    /\ last.before.pk # last.pk /\ pm[last.id].pk = last.pk
    /\ last.addr.ip = last.before.ip

\* C3 as claimed: for a bound id, every RegisterPk whose uuid differs from
\* the stored uuid is answered UUID_MISMATCH, whatever its key and address.
C3_DifferentUuidRejected ==
    (RegisterPkHandled /\ WasBound /\ last.uuid # last.before.uuid)
        => last.reply = "UUID_MISMATCH"

\* C3 as amended: for a bound id, a RegisterPk with a non-empty uuid and a
\* non-empty public key whose uuid differs from the stored uuid is answered
\* UUID_MISMATCH, whatever its key and source address.
C3_DifferentUuidRejectedNonEmpty ==
    (RegisterPkHandled /\ WasBound /\ last.uuid # last.before.uuid
        /\ last.uuid # "" /\ last.pk # "")
        => last.reply = "UUID_MISMATCH"

\* A RegisterPk with another uuid, the stored key and the stored address.
C3_Witness ==
    /\ RegisterPkHandled /\ WasBound
    /\ last.uuid # "" /\ last.uuid # last.before.uuid
    /\ last.pk = last.before.pk /\ last.addr = last.before.socket_addr
    /\ last.reply = "UUID_MISMATCH"

\* C4 as claimed: for a bound id, a RegisterPk with the stored uuid, a public
\* key other than the stored one and a source address other than the stored
\* one is answered UUID_MISMATCH and never OK.
C4_NewKeyNewAddressRejected ==
    (RegisterPkHandled /\ WasBound /\ last.uuid = last.before.uuid
        /\ last.pk # last.before.pk /\ last.addr # last.before.socket_addr)
        => last.reply = "UUID_MISMATCH"

\* C4 as amended: for a bound id, a RegisterPk with the stored uuid, a
\* non-empty public key other than the stored one and a source IP address
\* other than the stored one is answered UUID_MISMATCH and never OK.
C4_NewKeyNewIpRejected ==
    (RegisterPkHandled /\ WasBound /\ last.uuid = last.before.uuid
        /\ last.pk # "" /\ last.pk # last.before.pk
        /\ last.addr.ip # last.before.ip)
        => last.reply = "UUID_MISMATCH"

\* The stored uuid came with a new key from a new IP address and was refused.
C4_Witness ==
    /\ RegisterPkHandled /\ WasBound /\ last.uuid = last.before.uuid
    /\ last.pk # "" /\ last.pk # last.before.pk
    /\ last.addr.ip # last.before.ip
    /\ last.reply = "UUID_MISMATCH" /\ ~last.updated

\* The record update_pk writes for the datagram in `last`.
Registered ==
    [uuid |-> last.uuid, pk |-> last.pk, socket_addr |-> last.addr, ip |-> last.addr.ip]

\* C5 as claimed: for a bound id, a RegisterPk with the stored uuid and key
\* from a socket address (IP and port) other than the stored one is accepted
\* with changed = true: the directory holds the new address and OK is sent.
C5_NewSocketAddrAccepted ==
    (RegisterPkHandled /\ WasBound /\ last.uuid = last.before.uuid
        /\ last.pk = last.before.pk /\ last.addr # last.before.socket_addr)
        => /\ last.changed /\ last.reply = "OK"
           /\ pm[last.id].socket_addr = last.addr

\* C5 as amended: for a bound id, a RegisterPk with the stored uuid and key
\* from an IP address other than the stored one is accepted with changed =
\* true, the directory is updated to the new socket address and OK is sent;
\* from the stored IP on another port it is answered OK with changed = false
\* and the stored record, its address included, stays as it was.
C5_NewIpAccepted ==
    (RegisterPkHandled /\ WasBound /\ last.uuid = last.before.uuid
        /\ last.pk = last.before.pk)
        => /\ last.reply = "OK"
           /\ last.addr.ip # last.before.ip
                => last.changed /\ last.updated /\ pm[last.id] = Registered
           /\ last.addr.ip = last.before.ip
                => ~last.changed /\ ~last.updated /\ pm[last.id] = last.before

\* A bound peer roamed to another IP address and was accepted.
C5_Witness ==
    /\ RegisterPkHandled /\ WasBound /\ last.uuid = last.before.uuid
    /\ last.pk = last.before.pk /\ last.addr.ip # last.before.ip
    /\ last.changed /\ last.reply = "OK" /\ pm[last.id].socket_addr = last.addr

\* C6: a RegisterPk with the id, uuid, public key and source address of the
\* stored record yields changed = false, is answered OK, makes no update_pk
\* call and leaves the directory entry identical.
C6_IdempotentReRegistration ==
    (RegisterPkHandled /\ WasBound /\ last.uuid = last.before.uuid
        /\ last.pk = last.before.pk /\ last.addr = last.before.socket_addr)
        => /\ ~last.changed /\ ~last.updated
           /\ last.reply = "OK"
           /\ pm[last.id] = last.before

\* The same registration was handled a second time.
C6_Witness ==
    /\ RegisterPkHandled /\ WasBound /\ last.uuid = last.before.uuid
    /\ last.pk = last.before.pk /\ last.addr = last.before.socket_addr
    /\ last.reply = "OK" /\ last.result = "Ok"

\* C7: a RegisterPk answered with the mismatch response leaves the record
\* stored for its id (uuid, public key, address) exactly as it was.
C7_MismatchLeavesRecord ==
    (RegisterPkHandled /\ last.reply = "UUID_MISMATCH")
        => pm[last.id] = last.before

\* A bound id got a mismatch answer for a registration that differs from
\* the stored record in uuid, key and address.
C7_Witness ==
    /\ RegisterPkHandled /\ WasBound /\ last.reply = "UUID_MISMATCH"
    /\ last.uuid # last.before.uuid /\ last.pk # last.before.pk
    /\ last.addr.ip # last.before.ip /\ last.looked_up

\* handle_udp has returned from a PunchHoleRequest datagram.
PunchHoleHandled == pc = "udp" /\ last.kind = "PunchHoleRequest"

\* C8: with a server license key in force, a PunchHoleRequest carrying
\* another key is answered LICENSE_MISMATCH without a directory lookup and
\* without starting a resolution, and the step changes nothing in the server
\* (directory, database, detached tasks), whether or not the target is known.
C8_LicenseGatePrecedesLookup ==
    [][(pc = "select" /\ pc' = "udp" /\ last'.kind = "PunchHoleRequest"
          /\ key # "" /\ last'.licence_key # key)
        => /\ last'.reply = "LICENSE_MISMATCH" /\ last'.reply_addr = NoAddr
           /\ ~last'.looked_up /\ last'.route = "none" /\ last'.queued = "none"
           /\ pm' = pm /\ spawned' = spawned /\ devices' = devices]_vars

\* A request with a wrong key for a bound target was refused.
C8_Witness ==
    /\ PunchHoleHandled /\ key # "" /\ last.licence_key # key
    /\ WasBound /\ last.reply = "LICENSE_MISMATCH"

\* C9 as claimed: with the configured key empty or "-", no PunchHoleRequest
\* is answered LICENSE_MISMATCH, whatever key it carries.
C9_EmptyOrDashDisablesCheck ==
    (PunchHoleHandled /\ key_arg \in {"", "-"})
        => last.reply # "LICENSE_MISMATCH" /\ last.route \in {"sync", "spawn"}

\* C9 as amended: with the configured key empty the license check is
\* disabled and no PunchHoleRequest is answered LICENSE_MISMATCH, whatever
\* key it carries; with "-" the public key gen_sk returns is the license key
\* and a request carrying another key is answered LICENSE_MISMATCH unless
\* that generated key is empty.
C9_EmptyDisablesCheck ==
    /\ key_arg = "" => key = ""
    /\ key_arg = "-" => key \in GenPks
    /\ (PunchHoleHandled /\ key_arg = "")
         => last.reply # "LICENSE_MISMATCH" /\ last.route \in {"sync", "spawn"}
    /\ (PunchHoleHandled /\ key_arg = "-")
         => (last.reply = "LICENSE_MISMATCH" <=> (key # "" /\ last.licence_key # key))

\* With no key configured a request carrying some key passed the gate.
C9_Witness ==
    /\ PunchHoleHandled /\ key_arg = "" /\ last.licence_key # ""
    /\ last.route \in {"sync", "spawn"} /\ last.reply # "LICENSE_MISMATCH"

\* C10: after an accepted RegisterPk for an id from address A, with no
\* license key in force and always-use-relay off, a PunchHoleRequest for
\* that id is answered with a PunchHoleResponse that carries A. The target
\* is resident, so the request is resolved inside the dispatch: the answer
\* has been sent, or handed to the mailbox, when handle_udp returns.
C10_PunchHoleAnsweredWithAddress ==
    (PunchHoleHandled /\ key = "" /\ ~always_use_relay /\ WasBound
        /\ last.result = "Ok")
        => /\ "PunchHoleResponse" \in {last.reply, last.queued}
           /\ last.reply_addr = last.before.socket_addr
Servers(list) == {list[i] : i \in 1..Len(list)}

\* A request that has to be routed through a relay was handled: the target is
\* bound and ALWAYS_USE_RELAY is set.
RelayRouted(m) ==
    /\ always_use_relay
    /\ m.kind = "PunchHoleRequest"
    /\ m.route = "sync"
    /\ m.before # NoPeer
    /\ m.before.uuid # ""

\* C12: when relay servers are configured, a relay-routed punch-hole request
\* is given one of them: a server of the list in use when that list is not
\* empty, a configured server otherwise; never no relay at all.
C12_RelayChosenWhenConfigured ==
    (pc = "udp" /\ RelayRouted(last) /\ relay_arg # <<>>) =>
        IF relay_servers # <<>>
        THEN last.relay \in Servers(relay_servers)
        ELSE last.relay \in Servers(relay_arg)

\* C13: with more than one relay server configured, each relay-routed
\* punch-hole request moves the rotation index on by one modulo the number
\* of servers.
C13_RotationAdvances ==
    [][(pc = "select" /\ pc' = "udp" /\ RelayRouted(last') /\ Len(relay_arg) > 1)
        => rotation' = (rotation + 1) % Len(relay_arg)]_vars

\* The port each resource was bound to when the server started: P, P, P-1
\* and P+2.
OriginalPort(kind) ==
    CASE kind = "UdpSocket" -> ServerPort
      [] kind = "Listener"  -> ServerPort
      [] kind = "Listener2" -> ServerPort - 1
      [] kind = "Listener3" -> ServerPort + 2

\* C14: the step start() takes after io_loop returned the failure K drops and
\* creates resource K and no other, on the port K had from the start; the
\* other three resources, the peer directory, the devices table, the relay
\* lists, the rotation index and the mailbox are as they were.
C14_RecreatesExactlyFailedResource ==
    [][(pc = "failure" /\ pc' # "failure") =>
        /\ rebuilt'.kind = failure
        /\ rebuilt'.port = OriginalPort(failure)
        /\ rebuilt'.ok => sockets'[failure] = OriginalPort(failure)
        /\ \A k \in Kinds \ {failure} : sockets'[k] = sockets[k]
        /\ UNCHANGED <<pm, devices, relay_servers0, relay_servers, rotation, mailbox, xferVars, appVars>>
      ]_vars

\* listener2 failed with a peer bound in the directory and came back on P-1,
\* and listener3 came back on P+2 earlier or later in other runs.
C14_Witness ==
    /\ pc = "start"
    /\ rebuilt.ok
    /\ rebuilt.kind = "Listener2"
    /\ rebuilt.port = ServerPort - 1
    /\ sockets = BindAll(ServerPort)
    /\ Bound(pm, "alice1")

\* C15: after io_loop returned a failure the main task comes back into io_loop
\* or ends; it ends only in the step in which the creation of the resource
\* failed, and a creation that succeeded always leads to the top of the loop.
C15_FailureNeverEndsMainTask ==
    /\ (pc = "failure") ~> (pc = "select" \/ pc = "exited")
    /\ [][(pc' = "exited" /\ pc # "exited") => (pc = "failure" /\ ~rebuilt'.ok)]_vars
    /\ [][(pc = "failure" /\ pc' # "failure" /\ rebuilt'.ok) => pc' = "start"]_vars

\* The UDP socket failed and was created again: the main task is at the top
\* of its loop, about to call io_loop.
C15_Witness ==
    /\ pc = "start"
    /\ rebuilt.ok
    /\ rebuilt.kind = "UdpSocket"

\* The UDP socket is being rebuilt: io_loop returned LoopFailure::UdpSocket
\* and has not been called again.
UdpRebuildWindow ==
    \/ pc = "failure" /\ failure = "UdpSocket"
    \/ pc = "start" /\ rebuilt.kind = "UdpSocket"

\* One failure, one rebuild: a resource is created again only in the step
\* that consumes the failure io_loop returned for it.
OneRebuildPerFailure ==
    [][(rebuilt' # rebuilt /\ rebuilt'.kind # "none") =>
        (pc = "failure" /\ failure = rebuilt'.kind /\ failure' = "none")]_vars

\* C16 as stated: a UDP failure causes exactly one rebuild of the UDP socket,
\* and connections can be accepted on the listeners while the socket is being
\* rebuilt.
C16_AcceptsContinueDuringRebuild ==
    /\ OneRebuildPerFailure
    /\ [](UdpRebuildWindow => ENABLED AcceptConnection)

\* C16, amended: a UDP failure causes exactly one rebuild of the UDP socket;
\* the three listeners stay bound to their ports through it, no connection is
\* accepted while the main task is outside io_loop, and accepting is possible
\* again as soon as io_loop has been entered again.
C16_ListenersKeptAcceptsResume ==
    /\ OneRebuildPerFailure
    /\ [](UdpRebuildWindow => \A k \in Listeners : sockets[k] = OriginalPort(k))
    /\ [][(pc' = "tcp" /\ pc # "tcp") => pc = "select"]_vars
    /\ [](pc = "select" => ENABLED AcceptConnection)

\* The UDP socket failed while a peer was bound and the creation is pending.
C16_Witness ==
    /\ pc = "failure"
    /\ failure = "UdpSocket"
    /\ Bound(pm, "alice1")

\* The timeout of a session's tier in seconds: 8 hours when authenticated,
\* 1 hour when anonymous.
TierTimeout(session) == IF session.authenticated THEN 8 * 3600 ELSE 3600

\* C17: a sweep removes exactly the sessions idle for more than their tier
\* timeout at the instant of the sweep and leaves every other session as it
\* was; nothing but a sweep removes a session, sweeps run at the multiples of
\* 60 s, and no session is left that was idle for more than its timeout at the
\* last sweep.
C17_SweepRemovesExactlyExpired ==
    /\ [][last_sweep' # last_sweep =>
            /\ last_sweep' % 60 = 0
            /\ last_sweep' > now /\ last_sweep' > now' - 60 /\ last_sweep' <= now'
            /\ \A d \in Devices :
                IF sessions[d] # NoSession
                   /\ last_sweep' - sessions[d].last_activity > TierTimeout(sessions[d])
                THEN sessions'[d] = NoSession
                ELSE sessions'[d] = sessions[d]]_vars
    /\ [][(\E d \in Devices : sessions[d] # NoSession /\ sessions'[d] = NoSession)
            => last_sweep' # last_sweep]_vars
    /\ [](\A d \in Devices :
            sessions[d] # NoSession =>
                last_sweep - sessions[d].last_activity <= TierTimeout(sessions[d]))

\* The sweep at 1 h 1 min removed the anonymous session of d1, idle for longer
\* than an hour, and kept the anonymous session of d2, idle for exactly an
\* hour.
C17_Witness ==
    /\ expired = {"d1"}
    /\ sessions["d1"] = NoSession
    /\ sessions["d2"] # NoSession
    /\ ~sessions["d2"].authenticated
    /\ last_sweep = now
    /\ last_sweep - sessions["d2"].last_activity = 3600

\* The five capabilities of a session.
Capabilities(session) ==
    {session.permissions.can_control, session.permissions.can_transfer_files,
     session.permissions.can_view_screen, session.permissions.can_use_audio,
     session.permissions.can_use_clipboard}

\* authenticated exactly when a user id is present; all five capabilities and
\* 8 hours when authenticated, none and 1 hour when anonymous.
SessionWellFormed(session) ==
    /\ session.authenticated <=> session.user_id # None
    /\ session.authenticated =>
          /\ Capabilities(session) = {TRUE}
          /\ session.permissions.session_timeout = Some(8 * 3600)
    /\ ~session.authenticated =>
          /\ Capabilities(session) = {FALSE}
          /\ session.permissions.session_timeout = Some(3600)

\* Device d has a session before and after the step.
KeepsSession(d) == sessions[d] # NoSession /\ sessions'[d] # NoSession

\* C18 as stated: every session in the map is well formed, and while a device
\* has a session its authenticated flag and its permissions never change.
C18_TierNeverChangesForDevice ==
    /\ [](\A d \in Devices : sessions[d] # NoSession => SessionWellFormed(sessions[d]))
    /\ [][\A d \in Devices : KeepsSession(d) =>
            /\ sessions'[d].authenticated = sessions[d].authenticated
            /\ sessions'[d].permissions = sessions[d].permissions]_vars

\* C18, amended: every session in the map is well formed, and no session is
\* modified in place: while a device has a session, the session changes only
\* by being replaced with one created in that step (last_activity is the
\* current instant, connection_count is 1), well formed for its own user id.
C18_TierFixedPerSession ==
    /\ [](\A d \in Devices : sessions[d] # NoSession => SessionWellFormed(sessions[d]))
    /\ [][\A d \in Devices : (KeepsSession(d) /\ sessions'[d] # sessions[d]) =>
            /\ sessions'[d].last_activity = now
            /\ sessions'[d].connection_count = 1
            /\ now' = now]_vars

\* Both tiers are in the map some time after the start, the authenticated
\* session created later than the anonymous one.
C18_Witness ==
    /\ sessions["d1"] # NoSession
    /\ sessions["d2"] # NoSession
    /\ sessions["d1"].authenticated
    /\ ~sessions["d2"].authenticated
    /\ sessions["d1"].last_activity > sessions["d2"].last_activity

\* C19: authenticate_device ends with a user id or with anonymous, never with
\* an error or an abort: with a user id only for a token that verifies and a
\* user allowed to access the device, with anonymous when no token is given,
\* when the token does not verify, when the user is unknown and when the
\* permission is denied.
C19_AuthNeverFails ==
    auth # NoAuth =>
        /\ auth.outcome \in {"user", "anonymous"}
        /\ auth.outcome = "user" <=>
              /\ auth.token # None
              /\ auth.lookup.called /\ auth.lookup.ok
              /\ \E role \in Roles \ {"ReadOnly"} : auth.lookup.user = Some(role)
        /\ auth.outcome = "user" <=> auth.user_id # None

\* A RegisterPk with both fields filled in whose id is too short, or whose id
\* is bound to another uuid, or to this uuid with another key from another IP
\* address.
IdentityMismatch(m) ==
    /\ m.kind = "RegisterPk"
    /\ m.uuid # "" /\ m.pk # ""
    /\ \/ Len(m.id) < 6
       \/ /\ m.before # NoPeer /\ m.before.uuid # ""
          /\ \/ m.uuid # m.before.uuid
             \/ m.pk # m.before.pk /\ m.addr.ip # m.before.ip

\* A PunchHoleRequest with a key other than the one in force.
LicenseMismatch(m) ==
    m.kind = "PunchHoleRequest" /\ key # "" /\ m.licence_key # key

\* C20 as stated: an identity mismatch, a license mismatch and a malformed
\* message are each answered with a typed response sent to the sender, and
\* handle_udp returns Ok for each of them.
C20_ValidationErrorsAnswered ==
    (pc = "udp" /\ (IdentityMismatch(last) \/ LicenseMismatch(last)
                    \/ last.kind = "Malformed"))
        => /\ last.reply \in {"UUID_MISMATCH", "LICENSE_MISMATCH", "TOO_FREQUENT"}
           /\ last.reply_to = last.addr
           /\ last.result = "Ok"

\* C20, amended: an identity mismatch is answered UUID_MISMATCH and a license
\* mismatch LICENSE_MISMATCH, sent to the address the datagram came from and
\* leaving the directory as it was; a malformed message is dropped without
\* an answer; handle_udp returns an error for none of them unless the sending
\* of the answer fails.
C20_MismatchAnsweredMalformedDropped ==
    pc = "udp" =>
        /\ IdentityMismatch(last) =>
              /\ last.reply = "UUID_MISMATCH" /\ last.reply_to = last.addr
              /\ pm[last.id] = last.before
        /\ LicenseMismatch(last) =>
              /\ last.reply = "LICENSE_MISMATCH" /\ last.reply_to = last.addr
              /\ pm[last.id] = last.before
        /\ last.kind = "Malformed" =>
              /\ last.reply = "none" /\ last.reply_to = NoAddr
              /\ last.result = "Ok"
        /\ last.result = "Err" => last.reply # "none"

\* A RegisterPk for an id that is too short was answered UUID_MISMATCH at its
\* source address.
C20_Witness ==
    /\ pc = "udp"
    /\ IdentityMismatch(last)
    /\ Len(last.id) < 6 /\ last.id # ""
    /\ last.reply = "UUID_MISMATCH"
    /\ last.reply_to = last.addr
    /\ last.result = "Ok"

\* C21: a RegisterPeer whose register_device call failed gets the answer and
\* leaves the directory as one whose call succeeded (a ConfigUpdate exactly
\* when the server's serial is ahead, an error only from sending it), and a
\* create_device_session whose log_audit call failed returns Ok and leaves
\* the same session in the map.
C21_CollaboratorFailureIgnored ==
    /\ []((pc = "udp" /\ last.kind = "RegisterPeer" /\ ~last.db_ok) =>
            /\ last.reply = (IF serial > last.serial THEN "ConfigUpdate" ELSE "none")
            /\ last.result = "Err" => last.reply = "ConfigUpdate"
            /\ pm[last.id] = last.before)
    /\ [](audit.logged = "Err" =>
            /\ audit.result = "Ok"
            /\ sessions[audit.device_id] # NoSession
            /\ sessions[audit.device_id].authenticated
            /\ sessions[audit.device_id].last_activity = now)

\* register_device failed for a RegisterPeer that was behind on the serial and
\* got its ConfigUpdate, after a create_device_session whose log_audit failed.
C21_Witness ==
    /\ pc = "udp" /\ last.kind = "RegisterPeer" /\ ~last.db_ok
    /\ last.reply = "ConfigUpdate" /\ last.result = "Ok"
    /\ devices[last.id] = NoRow
    /\ audit.logged = "Err"

\* The RegisterPk passed the checks made before the directory is looked at.
PassedValidation ==
    /\ RegisterPkHandled
    /\ last.uuid # "" /\ last.pk # ""
    /\ Len(last.id) >= MinIdLen

\* No uuid was bound to the id of the datagram when it arrived.
WasUnbound == last.before = NoPeer \/ last.before.uuid = ""

\* The stored record does not contradict the presented identity: same uuid,
\* and not both a new key and a new IP address.
PassedIdentityCheck ==
    \/ WasUnbound
    \/ /\ last.before.uuid = last.uuid
       /\ ~(last.before.ip # last.addr.ip /\ last.before.pk # last.pk)

\* C23: a RegisterPk that passes validation for an id with no bound uuid
\* binds the id to the presented uuid, key and source address with
\* changed = true and is answered OK; every RegisterPk that passes validation
\* and the identity check is answered OK, changed or not.
C23_FirstRegistrationBindsAndOk ==
    /\ (PassedValidation /\ WasUnbound) =>
            /\ last.changed /\ last.updated
            /\ pm[last.id] = [uuid |-> last.uuid, pk |-> last.pk,
                              socket_addr |-> last.addr, ip |-> last.addr.ip]
            /\ last.reply = "OK" /\ last.reply_to = last.addr
    /\ (PassedValidation /\ PassedIdentityCheck) =>
            last.reply = "OK" /\ last.reply_to = last.addr

\* A first registration of an id bound it and was answered OK.
C23_Witness ==
    /\ PassedValidation /\ last.before = NoPeer
    /\ last.changed /\ pm[last.id].uuid = last.uuid
    /\ last.reply = "OK" /\ last.result = "Ok"

\* A registration that changed nothing was answered OK as well.
C23_WitnessUnchanged ==
    /\ PassedValidation /\ ~WasUnbound /\ PassedIdentityCheck
    /\ ~last.changed /\ last.reply = "OK"

RegisterPeerHandled == pc = "udp" /\ last.kind = "RegisterPeer" /\ last.id # ""

\* C25: after a RegisterPeer with a non-empty id from address A has been
\* handled, the directory entry of the id exists and holds A as the peer's
\* address, so a lookup of the id yields A.
C25_RegisterPeerRecordsAddress ==
    (RegisterPeerHandled /\ last.result = "Ok") =>
        /\ is_in_memory(pm, last.id)
        /\ pm[last.id].socket_addr = last.addr

\* C26: a RegisterPeer is answered with a ConfigUpdate, sent to its sender
\* and carrying the server's serial and rendezvous-server list, exactly when
\* its id is non-empty and the server's serial is greater than the serial in
\* the message; nothing else is sent for it, and a RegisterPeer with an empty
\* id changes nothing and is not answered.
C26_ConfigUpdateIffBehind ==
    /\ []((pc = "udp" /\ last.kind = "RegisterPeer") =>
            /\ (last.reply = "ConfigUpdate") <=> (last.id # "" /\ serial > last.serial)
            /\ last.reply \in {"ConfigUpdate", "none"}
            /\ last.reply = "ConfigUpdate" =>
                    /\ last.reply_to = last.addr
                    /\ last.config = [serial |-> serial,
                                      rendezvous_servers |-> RendezvousServers]
            /\ last.reply = "none" => last.reply_to = NoAddr /\ last.config = NoConfig)
    /\ [][(pc' = "udp" /\ last'.kind = "RegisterPeer" /\ last'.id = "") =>
            /\ pm' = pm /\ devices' = devices
            /\ last'.reply = "none" /\ last'.result = "Ok"]_vars

\* A sender behind on the serial got the ConfigUpdate.
C26_Witness ==
    /\ RegisterPeerHandled /\ serial > last.serial
    /\ last.reply = "ConfigUpdate" /\ last.reply_to = last.addr /\ last.result = "Ok"
    /\ last.config.rendezvous_servers = RendezvousServers

\* A sender with the server's serial got nothing.
C26_WitnessUpToDate ==
    RegisterPeerHandled /\ serial = last.serial /\ last.reply = "none"

\* A RegisterPeer with an empty id was handled.
C26_WitnessEmptyId ==
    pc = "udp" /\ last.kind = "RegisterPeer" /\ last.id = "" /\ last.addr # NoAddr

\* handle_udp is running or has just returned for a datagram that is handled
\* inside the loop: a registration message, or a punch-hole request whose
\* target was resident when it arrived.
HandledInLoop(m, target) ==
    \/ m.kind \in {"RegisterPeer", "RegisterPk"}
    \/ m.kind = "PunchHoleRequest" /\ target # NoPeer

\* C27: the datagrams are handled one at a time in the order socket.next()
\* yields them: a datagram is taken only at the select point of the loop, the
\* directory and the device table change and a reply is sent only in the
\* step that handles it, nothing of a registration message or of a
\* punch-hole request for a resident target is left to a detached task, and
\* until the loop is back at the select point no other datagram is taken.
C27_DatagramsHandledInOrder ==
    /\ [][(pm' # pm \/ devices' # devices \/ (last' # last /\ last'.kind # "none"))
            => pc = "select" /\ pc' \in {"udp", "tcp"}]_vars
    /\ [][(pc = "select" /\ pc' = "udp" /\ HandledInLoop(last', pm[last'.id]))
            => spawned' = spawned /\ last'.route # "spawn"]_vars
    /\ [][pc = "udp" => /\ pm' = pm /\ devices' = devices
                        /\ last' \in {last, NoMsg}
                        /\ pc' \in {"udp", "select", "failure"}]_vars

\* A punch-hole request for a bound, resident target was handled inside the
\* loop, with no detached task left behind.
C27_Witness ==
    /\ pc = "udp" /\ last.kind = "PunchHoleRequest" /\ last.route = "sync"
    /\ last.before # NoPeer /\ last.before.uuid # ""
    /\ spawned = {}

\* A PunchHoleRequest that passed the license gate for a target that was not
\* resident when it arrived.
ColdRequest(m) ==
    /\ m.kind = "PunchHoleRequest"
    /\ m.before = NoPeer
    /\ m.looked_up

\* C28: a PunchHoleRequest for a target that is not resident starts one
\* detached task and handle_udp returns Ok at once, so the loop goes on; the
\* end of a detached task, whatever its result, changes neither the position
\* of the loop nor the failure it reports nor the transport resources; and
\* as long as the main task lives every pending task can be the next to
\* finish, whatever the loop is doing.
C28_ColdResolutionDetached ==
    /\ [][(pc = "select" /\ pc' = "udp" /\ ColdRequest(last')) =>
            /\ last'.route = "spawn" /\ last'.result = "Ok" /\ last'.reply = "none"
            /\ Cardinality(spawned') = Cardinality(spawned) + 1
            /\ spawned \subseteq spawned']_vars
    /\ [][spawned' \subseteq spawned /\ spawned' # spawned =>
            /\ pc' = pc /\ failure' = failure /\ sockets' = sockets
            /\ last' = last /\ pm' = pm]_vars
    /\ [](pc # "exited" =>
            \A t \in spawned : ENABLED (ColdResolve /\ spawned' = spawned \ {t}))

\* Two cold resolutions are pending while the loop has handled a later
\* registration.
C28_Witness ==
    /\ Cardinality(spawned) = 2
    /\ pc = "udp" /\ last.kind = "RegisterPk" /\ last.reply = "OK"

\* The cold resolution spawned first has finished while a later one is pending.
C28_WitnessOutOfOrder ==
    /\ spawned = {2}
    /\ pc = "udp" /\ last.kind = "PunchHoleRequest" /\ last.route = "sync"

\* C29: whatever happens to an accepted connection, io_loop gets no error
\* from its handler and goes round again: no failure is reported, no transport
\* resource is touched, the directory and the detached tasks are left alone;
\* a listener kind is reported as the failure only by an accept() error taken
\* at the select point.
C29_ConnectionFailureIsolated ==
    /\ [](pc = "tcp" => last.kind \in Listeners /\ last.result = "Ok"
                        /\ ENABLED LoopContinue)
    /\ [][pc = "tcp" =>
            /\ pc' \in {"tcp", "select"}
            /\ failure' = failure /\ sockets' = sockets /\ rebuilt' = rebuilt
            /\ pm' = pm /\ devices' = devices /\ spawned' \subseteq spawned]_vars
    /\ [][pc' = "tcp" /\ pc # "tcp" =>
            /\ pc = "select" /\ failure' = failure /\ sockets' = sockets
            /\ pm' = pm /\ devices' = devices /\ spawned' = spawned]_vars
    /\ [][failure' # failure /\ failure' \in Listeners =>
            pc = "select" /\ pc' = "failure" /\ last' = last]_vars

\* A connection that went wrong was accepted on the WebSocket listener while
\* a detached task was pending.
C29_Witness ==
    /\ pc = "tcp" /\ last.kind = "Listener3" /\ ~last.conn_ok
    /\ spawned # {}

\* An accept() error of the NAT-probe listener was reported.
C29_WitnessAcceptError == pc = "failure" /\ failure = "Listener2"

\* The sequence numbers of a list of Data values.
Seqs(list) == [i \in 1..Len(list) |-> list[i].seq]

\* C30: the loop takes the Data values from rx one at a time, at its select
\* point, in the order they were sent; every value sent is either consumed
\* or still in the channel, also across a failure and the rebuild of a
\* transport resource; and whenever the loop is at its select point with a
\* value in the channel it can take it.
C30_MailboxFifoNothingLost ==
    /\ [](Seqs(consumed) \o Seqs(mailbox) = [i \in 1..sent |-> i])
    /\ [][consumed' # consumed =>
            /\ pc = "select" /\ mailbox # <<>>
            /\ consumed' = Append(consumed, Head(mailbox))
            /\ mailbox' = Tail(mailbox)]_vars
    /\ [][pc # "select" => consumed' = consumed
                           /\ Len(mailbox') >= Len(mailbox)]_vars
    /\ []((pc = "select" /\ mailbox # <<>>) => ENABLED MailboxRecv)

\* A value sent while a socket was being rebuilt was consumed after the loop
\* had resumed, behind one sent before the failure.
C30_Witness ==
    /\ Len(consumed) >= 2
    /\ consumed[1].at = "running" /\ consumed[2].at = "failure"
    /\ pc = "select" /\ sockets["UdpSocket"] # 0

\* C22: a start_transfer that returned Ok returned a non-empty transfer id
\* under which the transfer is registered, and a get_progress for the id of a
\* transfer that is still registered (not completed, cancelled or expired)
\* returns Some(progress); stated for the calls made while no handle_chunk is
\* stuck in complete_transfer.
C22_ProgressWhileActive ==
    /\ (tres.op = "start_transfer" /\ tres.outcome = "Ok") =>
            tres.id # "" /\ active_transfers[tres.id] # NoTransfer
    /\ (tres.op = "get_progress" /\ ~stuck /\ active_transfers[tres.id] # NoTransfer) =>
            tres.outcome = "Some"

\* A tick of the relay probe timer was served.
TimerTicked == pc = "timer" /\ last.kind = "Timer"

\* C31: on a tick of the probe timer a probe of the configured relay servers
\* is started exactly when more than one relay server is configured.
C31_ProbeIffSeveralConfigured ==
    TimerTicked => (last.probe <=> Len(relay_arg) > 1)

\* The serving loop takes a Data value of the given kind from the mailbox.
Taken(kind) ==
    /\ pc = "select"
    /\ mailbox # <<>>
    /\ Head(mailbox).kind = kind
    /\ consumed' = Append(consumed, Head(mailbox))

\* C32: the configured relay list changes only when a RelayServers0 value is
\* taken from the mailbox; a probe result (a RelayServers value) replaces the
\* list in use and leaves the configured list as it is, and the list in use
\* changes in no other step.
C32_RelayListsFrame ==
    [][/\ relay_servers0' # relay_servers0 => Taken("RelayServers0")
       /\ relay_servers' # relay_servers => Taken("RelayServers")
       /\ Taken("RelayServers") =>
            /\ relay_servers' = Head(mailbox).rs
            /\ relay_servers0' = relay_servers0]_vars

\* A probe result was taken and replaced the list in use, after a
\* RelayServers0 value had been taken, and the configured list is the one
\* start() left.
C32_Witness ==
    /\ \E i \in 1..Len(consumed) :
        /\ consumed[i].kind = "RelayServers"
        /\ relay_servers = consumed[i].rs
        /\ \E j \in 1..(i - 1) : consumed[j].kind = "RelayServers0"
    /\ relay_servers # <<>>
    /\ relay_servers0 = parse_relay_servers(<<>>, relay_arg)

\* A RegisterPk with an empty uuid or an empty public key.
EmptyRegistration(m) == m.kind = "RegisterPk" /\ (m.uuid = "" \/ m.pk = "")

\* C33: a RegisterPk with an empty uuid or an empty public key gets no
\* response, does not reach the directory and leaves it unchanged, and
\* handle_udp returns Ok; so every record of the directory has a uuid and a
\* public key that are not empty.
C33_EmptyRegistrationDropped ==
    /\ []((pc = "udp" /\ EmptyRegistration(last)) =>
            /\ last.reply = "none"
            /\ ~last.looked_up
            /\ last.result = "Ok")
    /\ [][(pc = "select" /\ pc' = "udp" /\ EmptyRegistration(last')) => pm' = pm]_vars
    /\ [](\A id \in Ids : pm[id] # NoPeer => (pm[id].uuid # "" /\ pm[id].pk # ""))

\* A RegisterPk with an empty uuid for an id that is bound was dropped, the
\* record of the id is the one before it.
C33_Witness ==
    /\ RegisterPkHandled
    /\ last.uuid = ""
    /\ last.pk # ""
    /\ WasBound
    /\ last.reply = "none"
    /\ pm[last.id] = last.before

\* A RegisterPk handler is between the release of the read lock and
\* update_pk.
RegisterPkInProgress == pc = "rk"

\* The record the handler in progress read under the read lock: the stored
\* one, or the default entry get_or made for an id not in the directory.
RecordRead == IF last.before = NoPeer THEN DefaultPeer ELSE last.before

\* A step of the RegisterPk handler.
RegisterPkStep ==
    \/ pc = "select" /\ pc' \in {"rk", "udp"} /\ last'.kind = "RegisterPk"
    \/ pc = "rk" /\ pc' = "udp"

\* C34: while a RegisterPk handler is between reading the record and
\* update_pk no other RegisterPk handler can start and the record of its id is
\* still the one it read; the directory is written by steps of the RegisterPk
\* handler only, never by the tasks that run beside it.
C34_OneRegistrationAtATime ==
    /\ [](RegisterPkInProgress =>
            /\ ~ENABLED RegisterPkRead
            /\ last.kind = "RegisterPk"
            /\ pm[last.id] = RecordRead)
    /\ [][pm' # pm => RegisterPkStep]_vars
    /\ [][(RegisterPkInProgress /\ last' # last) =>
            /\ pc' = "udp"
            /\ last'.id = last.id
            /\ pm' = [pm EXCEPT ![last.id] = pm'[last.id]]]_vars

\* A RegisterPk handler that is going to change the record of a bound id is
\* between its two steps while detached punch-hole resolutions are running.
C34_Witness ==
    /\ RegisterPkInProgress
    /\ WasBound
    /\ last.changed
    /\ Cardinality(spawned) = MaxSpawned

\* io_loop returns LoopFailure::UdpSocket in this step.
UdpFailureReturned == pc # "failure" /\ pc' = "failure" /\ failure' = "UdpSocket"

\* C35: io_loop returns the UDP failure, and the UDP socket is created again,
\* only after a receive error of the socket or after handle_udp returned an
\* error, and a handle_udp error always has that effect; a queued message
\* whose sending failed leaves the loop running with all its sockets.
C35_UdpRebuildCauses ==
    /\ [][UdpFailureReturned =>
            \/ pc = "select" /\ last' = last
            \/ pc = "udp" /\ last.result = "Err"]_vars
    /\ [][(pc = "udp" /\ last.result = "Err" /\ pc' # pc) => UdpFailureReturned]_vars
    /\ [][(pc = "failure" /\ pc' # pc /\ rebuilt'.kind = "UdpSocket") =>
            failure = "UdpSocket"]_vars
    /\ [](pc = "mail" => last.result = "Ok")
    /\ [][pc = "mail" => /\ pc' \in {"mail", "select"}
                         /\ UNCHANGED <<failure, sockets, rebuilt>>]_vars

\* The sending of a queued message has failed and the loop is about to go
\* round with the UDP socket it had.
C35_Witness ==
    /\ pc = "mail"
    /\ last.queued = "Msg"
    /\ ~last.sent_ok
    /\ last.result = "Ok"
    /\ sockets["UdpSocket"] = ServerPort

\* handle_udp has returned the error of sending a ConfigUpdate.
C35_WitnessReplyFailure ==
    /\ pc = "udp"
    /\ last.reply = "ConfigUpdate"
    /\ last.result = "Err"

\* C36: a handle_chunk call with a chunk marked is_last that was written to
\* an active transfer has returned Ok or an error, the transfer is no longer
\* in active_transfers, and the call is not waiting for the lock of
\* active_transfers.
C36_LastChunkCompletes ==
    (tres.op = "handle_chunk" /\ tres.is_last) =>
        /\ tres.outcome \in {"Ok", "Err"}
        /\ active_transfers[tres.id] = NoTransfer
        /\ ~stuck

\* C37: the number of active transfers never exceeds
\* MAX_CONCURRENT_TRANSFERS, also when start_transfer calls run at the same
\* time.
C37_TransferLimit ==
    active_count(active_transfers) <= MAX_CONCURRENT_TRANSFERS

\* A start_transfer that returns an error leaves active_transfers as it was.
C37_RefusalLeavesMap ==
    [][(tres' # tres /\ tres'.op = "start_transfer" /\ tres'.outcome = "Err")
        => active_transfers' = active_transfers]_vars

\* C38: a login request for a user for whom max_failed_attempts or more
\* wrong passwords were given in a row, made before the lockout period has
\* passed, is refused as locked.
C38_LockedAfterFailedAttempts ==
    (login_res.outcome \notin {"none", "internal_error"}
     /\ login_res.username = "u1"
     /\ login_res.streak_before >= max_failed_attempts
     /\ clock < lockout_duration)
        => login_res.outcome = "locked"

\* A successful login whose update of the users table went through leaves the
\* count of failed attempts at zero.
C38_SuccessResets ==
    [][(login_res'.outcome = "success" /\ logins' # logins)
        => user_row'.failed_login_attempts \in {0, user_row.failed_login_attempts}]_vars

\* C39: no two groups of user_groups have the same name.
C39_GroupNamesUnique ==
    \A a \in GroupIds, b \in GroupIds :
        (a # b /\ user_groups[a] # NoGroup /\ user_groups[b] # NoGroup)
            => user_groups[a] # user_groups[b]

\* A create_user_group that fails because the name is taken leaves the map as
\* it was.
C39_RefusedCreateLeavesMap ==
    [][(group_res' # group_res /\ group_res'.outcome = "Err")
        => (user_groups' = user_groups /\ name_taken(user_groups, group_res'.name))]_vars

\* C40: the bandwidth handed out never exceeds the available bandwidth.
C40_BandwidthWithinAvailable ==
    used_bandwidth <= available_bandwidth

\* Every call is granted the minimum of what it asked for and what was left
\* when it read the counters.
C40_GrantedMinimum ==
    bw_res.outcome = "returned" =>
        bw_res.allocated = Min(bw_res.requested, bw_res.remaining)

====
